---- MODULE Spec2Model ----
(***************************************************************************)
(* App Reviewer AI: the job store (JobManager), the cache abstraction      *)
(* (CacheManager with its Redis / in-memory backends), the submission      *)
(* handler (create_analysis) and the orchestrator (process_job).           *)
(*                                                                         *)
(* Every `await` of the source is a step of the model: a JobManager        *)
(* read-modify-write is two steps (get_json, then set_json), the four      *)
(* independent passes of asyncio.gather return one by one.                 *)
(***************************************************************************)
EXTENDS Integers, Sequences, FiniteSets, TLC

VARIABLES
    redisUp,    \* whether get_redis_client() can ping the durable store
    redis,      \* key -> <<value, ttl>> or <<>> : the durable store (honours TTL)
    memory,     \* key -> <<value>> or <<>> : _memory_cache._data (ignores TTL)
    settings,   \* the Settings instance (cost control fields)
    uuids,      \* number of identifiers uuid.uuid4() has handed out
    handler,    \* create_analysis invocations: position and locals
    run,        \* process_job invocations, one per scheduled id: position and locals
    api,        \* what the last direct call of a JobManager method returned
    statusLog,  \* history: per id, the <<status, progress>> pairs that
                \* create_analysis and process_job wrote to job:<id>
    invoked     \* history: per id, the collaborators process_job has invoked

vars == <<redisUp, redis, memory, settings, uuids, handler, run, api, statusLog, invoked>>

----------------------------------------------------------------------------
(* Bounds of the model                                                      *)

\* number of job identifiers / submissions (create_analysis calls) the state holds
MaxSubmissions == 2
\* largest number of reviews a fetch returns beyond the configured maximum
MaxOver == 1

Ids == 1..MaxSubmissions
Handlers == 1..MaxSubmissions

----------------------------------------------------------------------------
(* schemas.py: enums                                                        *)

CREATED == "created"
FETCHING_REVIEWS == "fetching"
ANALYZING_REVIEWS == "analyzing"
AGGREGATING_RESULTS == "aggregating"
COMPLETED == "completed"
FAILED == "failed"
JobStatus == {CREATED, FETCHING_REVIEWS, ANALYZING_REVIEWS, AGGREGATING_RESULTS,
              COMPLETED, FAILED}

INVALID_INPUT == "ERR_INVALID_INPUT"
REVIEW_FETCH_FAILED == "ERR_REVIEW_FETCH_FAILED"
AI_TIMEOUT == "ERR_AI_TIMEOUT"
SCHEMA_VALIDATION_FAILED == "ERR_SCHEMA_VALIDATION_FAILED"
COST_LIMIT_EXCEEDED == "ERR_COST_LIMIT_EXCEEDED"
ErrorCode == {INVALID_INPUT, REVIEW_FETCH_FAILED, AI_TIMEOUT,
              SCHEMA_VALIDATION_FAILED, COST_LIMIT_EXCEEDED}

\* Python's None for Optional[str] / Optional[ErrorCode] fields
None == "<None>"
\* Python's None for the Optional[int] progress argument of update_status
NoProgress == -1
\* Optional values that are records: <<>> is None, <<v>> is v
Absent == <<>>
Some(v) == <<v>>
Val(o) == o[1]

\* Python truthiness of an Optional[str]: None and "" are both falsy
Truthy(s) == s # None /\ s # ""

----------------------------------------------------------------------------
(* config.py: Settings                                                      *)

DefaultMaxTokenBudget == 50000
DefaultMaxReviewCount == 1000
DefaultResultCacheTtl == 86400
\* an environment override of MAX_REVIEW_COUNT below the request limit
LowMaxReviewCount == 2

SettingsChoices ==
    { [max_token_budget_per_job |-> DefaultMaxTokenBudget, max_review_count |-> m,
       result_cache_ttl |-> DefaultResultCacheTtl] :
        m \in {DefaultMaxReviewCount, LowMaxReviewCount} }

----------------------------------------------------------------------------
(* Requests and the external collaborators' possible answers                *)

PassNames == <<"sentiment", "issues", "features", "monetization">>
PassIdx == 1..4

\* token cost a pass can report (BasePipeline.tokens_used after analyze)
TokenCosts == {10000, 20000}
\* token cost of the action pass: 0 when it returns [] without calling the model
ActionTokenCosts == {0, 10000}
\* str(e) of an exception escaping a step of process_job; "" is the message of
\* an exception built without arguments (asyncio.TimeoutError(), Exception())
ExcMessages == {"", "boom"}
\* str(result) of the exception a failing independent pass raises
PassError(p) == PassNames[p] \o ": request timed out"

\* a store URL as the two regular expressions of extract_app_id see it:
\* ios_id is the group of /id(\d+), android_id the group of id=([^&]+)
Urls ==
    { [text |-> "https://apps.apple.com/us/app/x/id1", ios_id |-> "1", android_id |-> None],
      [text |-> "https://apps.apple.com/us/app/x", ios_id |-> None, android_id |-> None] }

locales_list == {"en-US", "en-GB"}

Requests ==
    { [app_url |-> u, platform |-> "ios",
       options |-> [review_limit |-> 1000, locale |-> l, analysis_version |-> "v1"]] :
        u \in Urls, l \in {None, "en-US", "fr-FR"} }

\* number of reviews the fetch collaborator can return for a request: none,
\* exactly the lower configured maximum, or more than it; never more than the
\* request's review_limit (reviews[:limit])
FetchCounts(limit) ==
    { n \in {0} \cup LowMaxReviewCount..(LowMaxReviewCount + MaxOver) : n <= limit }

----------------------------------------------------------------------------
(* routes.py: pure helpers                                                  *)

\* the digest is taken as injective: the hash is the digested string itself
generate_request_hash(request) ==
    request.app_url.text \o "|" \o ToString(request.options.review_limit) \o "|"
        \o (IF request.options.locale = None THEN "None" ELSE request.options.locale)
        \o "|" \o request.options.analysis_version

\* None stands for the ValueError
extract_app_id(app_url, platform) ==
    IF platform = "ios" THEN app_url.ios_id ELSE app_url.android_id

Hashes == { generate_request_hash(r) : r \in Requests }

----------------------------------------------------------------------------
(* cache.py: CacheManager over the two backends                             *)

\* mutant: one key for every job
_job_key_shared(analysis_id) == <<"job:", 1>>

_job_key(analysis_id) == <<"job:", analysis_id>>
_hash_key(request_hash) == <<"hash:", request_hash>>

JobKeys == { _job_key(i) : i \in Ids }
HashKeys == { _hash_key(h) : h \in Hashes }
Keys == JobKeys \cup HashKeys

\* _get_backend: the durable store when it answers the ping, else the fallback
_get_backend == IF redisUp THEN "redis" ELSE "memory"

get_json(key) ==
    IF _get_backend = "redis"
      THEN IF redis[key] = Absent THEN Absent ELSE Some(redis[key][1])
      ELSE memory[key]

\* backend.set(key, json_str, ex=ttl): the durable store keeps the expiry with
\* the value, InMemoryCache.set drops it
set_json(key, value, ttl) ==
    IF _get_backend = "redis"
      THEN redis' = [redis EXCEPT ![key] = <<value, ttl>>] /\ UNCHANGED memory
      ELSE memory' = [memory EXCEPT ![key] = Some(value)] /\ UNCHANGED redis

----------------------------------------------------------------------------
(* job_manager.py: JobManager                                               *)

\* JobData(...) as create_job builds it; reviews is the length of the list
NewJob(analysis_id, app_url, app_id, platform, options, request_hash) ==
    [analysis_id |-> analysis_id, app_url |-> app_url, app_id |-> app_id,
     platform |-> platform, options |-> options, request_hash |-> request_hash,
     status |-> CREATED, progress |-> 0, error |-> None, error_code |-> None,
     reviews |-> 0, result |-> Absent, tokens_used |-> 0]

get_job(analysis_id) == get_json(_job_key(analysis_id))

\* lines 85-90: the job the hash index names, None without a mapping
get_by_hash(request_hash) ==
    LET mapping == get_json(_hash_key(request_hash)) IN
    IF mapping # Absent THEN get_job(Val(mapping).analysis_id) ELSE Absent

\* the field updates of update_status between its get_job and its set_json
update_status(job, status, progress, error, error_code) ==
    LET j1 == [job EXCEPT !.status = status]
        j2 == IF progress # NoProgress THEN [j1 EXCEPT !.progress = progress] ELSE j1
    IN  IF Truthy(error) THEN [j2 EXCEPT !.error = error, !.error_code = error_code] ELSE j2

\* mutant: set_reviews that also starts the progress over
set_reviews_resets_progress(job, reviews) == [job EXCEPT !.reviews = reviews, !.progress = 0]

set_reviews(job, reviews) == [job EXCEPT !.reviews = reviews]

\* mutant: set_result that does not finalize the status
set_result_keeps_status(job, result, tokens_used) ==
    [job EXCEPT !.result = Some(result), !.tokens_used = tokens_used, !.progress = 100]

set_result(job, result, tokens_used) ==
    [job EXCEPT !.result = Some(result), !.tokens_used = tokens_used,
                !.status = COMPLETED, !.progress = 100]

\* mutant: fail_job that records the error without the FAILED status
fail_job_keeps_status(job, error, error_code) ==
    update_status(job, job.status, NoProgress, error, error_code)

fail_job(job, error, error_code) == update_status(job, FAILED, NoProgress, error, error_code)

----------------------------------------------------------------------------
(* Initial state                                                            *)

IdleHandler ==
    [pc |-> "idle", request |-> Absent, app_id |-> None, request_hash |-> None,
     mapping |-> Absent, analysis_id |-> 0, response |-> Absent]

NoPass == [state |-> "idle", tokens_used |-> 0]

IdleRun ==
    [pc |-> "idle", job |-> Absent, rmw |-> Absent, reviews |-> 0,
     passes |-> [p \in PassIdx |-> NoPass], total_tokens |-> 0,
     exc |-> None, result |-> Absent]

Init ==
    /\ redisUp \in BOOLEAN
    /\ redis = [k \in Keys |-> Absent]
    /\ memory = [k \in Keys |-> Absent]
    /\ settings \in SettingsChoices
    /\ uuids = 0
    /\ handler = [h \in Handlers |-> IdleHandler]
    /\ run = [i \in Ids |-> IdleRun]
    /\ api = Absent
    /\ statusLog = [i \in Ids |-> <<>>]
    /\ invoked = [i \in Ids |-> {}]

----------------------------------------------------------------------------
(* routes.py: create_analysis                                               *)

ErrorResponse(error_code) == [http |-> 400, error_code |-> error_code]
AnalyzeResponse(analysis_id, status, cached) ==
    [http |-> 200, analysis_id |-> analysis_id, status |-> status, cached |-> cached]

\* mutant: a submission whose locale is not checked
Submit_no_locale_check(h) ==
    /\ handler[h].pc = "idle"
    /\ \E request \in Requests :
        LET app_id == extract_app_id(request.app_url, request.platform)
        IN  IF app_id = None
              THEN handler' = [handler EXCEPT ![h].pc = "done",
                                   ![h].request = Some(request),
                                   ![h].response = Some(ErrorResponse(INVALID_INPUT))]
            ELSE handler' = [handler EXCEPT ![h].pc = "get_by_hash",
                                   ![h].request = Some(request),
                                   ![h].app_id = app_id,
                                   ![h].request_hash = generate_request_hash(request)]
    /\ UNCHANGED <<redisUp, redis, memory, settings, uuids, run, api, statusLog, invoked>>

\* lines 67-93: locale validation, app id extraction, request hash
Submit(h) ==
    /\ handler[h].pc = "idle"
    /\ \E request \in Requests :
        LET locale == request.options.locale
            app_id == extract_app_id(request.app_url, request.platform)
        IN  IF Truthy(locale) /\ locale \notin locales_list
              THEN handler' = [handler EXCEPT ![h].pc = "done",
                                   ![h].request = Some(request),
                                   ![h].response = Some(ErrorResponse(INVALID_INPUT))]
            ELSE IF app_id = None
              THEN handler' = [handler EXCEPT ![h].pc = "done",
                                   ![h].request = Some(request),
                                   ![h].response = Some(ErrorResponse(INVALID_INPUT))]
            ELSE handler' = [handler EXCEPT ![h].pc = "get_by_hash",
                                   ![h].request = Some(request),
                                   ![h].app_id = app_id,
                                   ![h].request_hash = generate_request_hash(request)]
    /\ UNCHANGED <<redisUp, redis, memory, settings, uuids, run, api, statusLog, invoked>>

\* job_manager.py line 87: get_by_hash reads the hash index; without a mapping
\* it returns None and create_analysis draws a fresh identifier (line 106)
GetByHashMapping(h) ==
    /\ handler[h].pc = "get_by_hash"
    /\ LET mapping == get_json(_hash_key(handler[h].request_hash)) IN
        IF mapping # Absent
          THEN /\ handler' = [handler EXCEPT ![h].pc = "get_by_hash_job",
                                             ![h].mapping = mapping]
               /\ UNCHANGED uuids
          ELSE /\ handler' = [handler EXCEPT ![h].pc = "create_job",
                                             ![h].analysis_id = uuids + 1]
               /\ uuids' = uuids + 1
    /\ UNCHANGED <<redisUp, redis, memory, settings, run, api, statusLog, invoked>>

\* mutant: a submission that takes over the identifier of the unfinished job
\* its fingerprint is mapped to
GetByHashJob_reuses_id(h) ==
    /\ handler[h].pc = "get_by_hash_job"
    /\ LET cached_job == get_job(Val(handler[h].mapping).analysis_id) IN
        IF cached_job # Absent /\ Val(cached_job).status = COMPLETED
          THEN handler' = [handler EXCEPT ![h].pc = "done",
                    ![h].response = Some(AnalyzeResponse(Val(cached_job).analysis_id,
                                                         Val(cached_job).status, TRUE))]
          ELSE handler' = [handler EXCEPT ![h].pc = "create_job",
                    ![h].analysis_id = Val(handler[h].mapping).analysis_id]
    /\ UNCHANGED <<redisUp, redis, memory, settings, uuids, run, api, statusLog, invoked>>

\* mutant: a cached answer for a job of any status
GetByHashJob_any_status(h) ==
    /\ handler[h].pc = "get_by_hash_job"
    /\ LET cached_job == get_job(Val(handler[h].mapping).analysis_id) IN
        IF cached_job # Absent
          THEN /\ handler' = [handler EXCEPT ![h].pc = "done",
                    ![h].response = Some(AnalyzeResponse(Val(cached_job).analysis_id,
                                                         Val(cached_job).status, TRUE))]
               /\ UNCHANGED uuids
          ELSE /\ handler' = [handler EXCEPT ![h].pc = "create_job",
                                             ![h].analysis_id = uuids + 1]
               /\ uuids' = uuids + 1
    /\ UNCHANGED <<redisUp, redis, memory, settings, run, api, statusLog, invoked>>

\* job_manager.py line 89 and routes.py lines 97-106: the job the mapping names
GetByHashJob(h) ==
    /\ handler[h].pc = "get_by_hash_job"
    /\ LET cached_job == get_job(Val(handler[h].mapping).analysis_id) IN
        IF cached_job # Absent /\ Val(cached_job).status = COMPLETED
          THEN /\ handler' = [handler EXCEPT ![h].pc = "done",
                    ![h].response = Some(AnalyzeResponse(Val(cached_job).analysis_id,
                                                         Val(cached_job).status, TRUE))]
               /\ UNCHANGED uuids
          ELSE /\ handler' = [handler EXCEPT ![h].pc = "create_job",
                                             ![h].analysis_id = uuids + 1]
               /\ uuids' = uuids + 1
    /\ UNCHANGED <<redisUp, redis, memory, settings, run, api, statusLog, invoked>>

\* job_manager.py lines 50-66: create_job stores the job data
CreateJobData(h) ==
    /\ handler[h].pc = "create_job"
    /\ LET request == Val(handler[h].request)
           id == handler[h].analysis_id
           job == NewJob(id, request.app_url, handler[h].app_id, request.platform,
                         request.options, handler[h].request_hash)
       IN  /\ set_json(_job_key(id), job, settings.result_cache_ttl)
           /\ statusLog' = [statusLog EXCEPT ![id] = Append(@, <<job.status, job.progress>>)]
    /\ handler' = [handler EXCEPT ![h].pc = "create_job_hash"]
    /\ UNCHANGED <<redisUp, settings, uuids, run, api, invoked>>

\* mutant: create_job that leaves an existing hash mapping as it is
CreateJobHash_keeps_entry(h) ==
    /\ handler[h].pc = "create_job_hash"
    /\ LET id == handler[h].analysis_id IN
        /\ IF get_json(_hash_key(handler[h].request_hash)) = Absent
             THEN set_json(_hash_key(handler[h].request_hash), [analysis_id |-> id],
                           settings.result_cache_ttl)
             ELSE UNCHANGED <<redis, memory>>
        /\ run' = [run EXCEPT ![id].pc = "get_job"]
        /\ handler' = [handler EXCEPT ![h].pc = "done",
                            ![h].response = Some(AnalyzeResponse(id, CREATED, FALSE))]
    /\ UNCHANGED <<redisUp, settings, uuids, api, statusLog, invoked>>

\* mutant: create_analysis that answers without scheduling process_job
CreateJobHash_no_schedule(h) ==
    /\ handler[h].pc = "create_job_hash"
    /\ LET id == handler[h].analysis_id IN
        /\ set_json(_hash_key(handler[h].request_hash), [analysis_id |-> id],
                    settings.result_cache_ttl)
        /\ handler' = [handler EXCEPT ![h].pc = "done",
                            ![h].response = Some(AnalyzeResponse(id, CREATED, FALSE))]
    /\ UNCHANGED <<redisUp, settings, uuids, run, api, statusLog, invoked>>

\* job_manager.py lines 68-76 and routes.py lines 116-127: create_job stores the
\* hash mapping, create_analysis schedules process_job and answers
CreateJobHash(h) ==
    /\ handler[h].pc = "create_job_hash"
    /\ LET id == handler[h].analysis_id IN
        /\ set_json(_hash_key(handler[h].request_hash), [analysis_id |-> id],
                    settings.result_cache_ttl)
        /\ run' = [run EXCEPT ![id].pc = "get_job"]
        /\ handler' = [handler EXCEPT ![h].pc = "done",
                            ![h].response = Some(AnalyzeResponse(id, CREATED, FALSE))]
    /\ UNCHANGED <<redisUp, settings, uuids, api, statusLog, invoked>>

----------------------------------------------------------------------------
(* worker.py: process_job                                                   *)

\* One JobManager update method called by run i. The first step is the
\* method's get_job (a missing record makes the method return None), the
\* second applies the method's field updates to the record that was read and
\* stores it with set_json. Apply is the method's field updates.
JobManagerCall(i, Apply(_), next) ==
    \/ /\ run[i].rmw = Absent
       /\ LET job == get_job(i) IN
            IF job = Absent
              THEN run' = [run EXCEPT ![i].pc = next]
              ELSE run' = [run EXCEPT ![i].rmw = job]
       /\ UNCHANGED <<redis, memory, statusLog>>
    \/ /\ run[i].rmw # Absent
       /\ LET job == Apply(Val(run[i].rmw)) IN
            /\ set_json(_job_key(i), job, settings.result_cache_ttl)
            /\ statusLog' = [statusLog EXCEPT ![i] = Append(@, <<job.status, job.progress>>)]
       /\ run' = [run EXCEPT ![i].rmw = Absent, ![i].pc = next]

\* mutant: process_job that goes on to the analysis when the job is missing
GetJob_ignores_missing(i) ==
    /\ run[i].pc = "get_job"
    /\ LET job == get_job(i) IN
        IF job = Absent
          THEN run' = [run EXCEPT ![i].pc = "start_gather"]
          ELSE run' = [run EXCEPT ![i].pc = "set_fetching", ![i].job = job]
    /\ UNCHANGED <<redisUp, redis, memory, settings, uuids, handler, api, statusLog, invoked>>

\* lines 42-45: load the job; a missing job ends the run
GetJob(i) ==
    /\ run[i].pc = "get_job"
    /\ LET job == get_job(i) IN
        IF job = Absent
          THEN run' = [run EXCEPT ![i].pc = "done"]
          ELSE run' = [run EXCEPT ![i].pc = "set_fetching", ![i].job = job]
    /\ UNCHANGED <<redisUp, redis, memory, settings, uuids, handler, api, statusLog, invoked>>

\* mutant: the analysis phase entered without fetching
SetFetching_skips_fetch(i) ==
    /\ run[i].pc = "set_fetching"
    /\ LET Apply(job) == update_status(job, FETCHING_REVIEWS, 5, None, None)
       IN  JobManagerCall(i, Apply, "start_gather")
    /\ UNCHANGED <<redisUp, settings, uuids, handler, api, invoked>>

\* lines 48-52
SetFetching(i) ==
    /\ run[i].pc = "set_fetching"
    /\ LET Apply(job) == update_status(job, FETCHING_REVIEWS, 5, None, None)
       IN  JobManagerCall(i, Apply, "fetch")
    /\ UNCHANGED <<redisUp, settings, uuids, handler, api, invoked>>

\* mutant: process_job without the empty-list check after the fetch
FetchReviews_no_empty_check(i) ==
    /\ run[i].pc = "fetch"
    /\ invoked' = [invoked EXCEPT ![i] = @ \cup {"fetch"}]
    /\ \/ \E n \in FetchCounts(Val(run[i].job).options.review_limit) :
            run' = [run EXCEPT ![i].reviews = n, ![i].pc = "set_reviews"]
       \/ \E m \in ExcMessages :
            run' = [run EXCEPT ![i].exc = m, ![i].pc = "except"]
    /\ UNCHANGED <<redisUp, redis, memory, settings, uuids, handler, api, statusLog>>

\* lines 54-68: the fetch collaborator returns a list of reviews or raises
FetchReviews(i) ==
    /\ run[i].pc = "fetch"
    /\ invoked' = [invoked EXCEPT ![i] = @ \cup {"fetch"}]
    /\ \/ \E n \in FetchCounts(Val(run[i].job).options.review_limit) :
            run' = [run EXCEPT ![i].reviews = n,
                               ![i].pc = IF n = 0 THEN "fail_fetch" ELSE "set_reviews"]
       \/ \E m \in ExcMessages :
            run' = [run EXCEPT ![i].exc = m, ![i].pc = "except"]
    /\ UNCHANGED <<redisUp, redis, memory, settings, uuids, handler, api, statusLog>>

\* lines 62-68
FailFetch(i) ==
    /\ run[i].pc = "fail_fetch"
    /\ LET Apply(job) == fail_job(job, "Failed to fetch reviews from app store",
                                  REVIEW_FETCH_FAILED)
       IN  JobManagerCall(i, Apply, "done")
    /\ UNCHANGED <<redisUp, settings, uuids, handler, api, invoked>>

\* line 70
SetReviews(i) ==
    /\ run[i].pc = "set_reviews"
    /\ LET Apply(job) == set_reviews(job, run[i].reviews)
       IN  JobManagerCall(i, Apply, "set_fetched")
    /\ UNCHANGED <<redisUp, settings, uuids, handler, api, invoked>>

\* mutant: the checkpoint after the fetch set to 15
SetFetched_15(i) ==
    /\ run[i].pc = "set_fetched"
    /\ LET Apply(job) == update_status(job, FETCHING_REVIEWS, 15, None, None)
       IN  JobManagerCall(i, Apply, "set_analyzing")
    /\ UNCHANGED <<redisUp, settings, uuids, handler, api, invoked>>

\* lines 71-75
SetFetched(i) ==
    /\ run[i].pc = "set_fetched"
    /\ LET Apply(job) == update_status(job, FETCHING_REVIEWS, 20, None, None)
       IN  JobManagerCall(i, Apply, "set_analyzing")
    /\ UNCHANGED <<redisUp, settings, uuids, handler, api, invoked>>

\* mutant: the analysis phase announced with the status of the aggregation phase
SetAnalyzing_wrong_status(i) ==
    /\ run[i].pc = "set_analyzing"
    /\ LET Apply(job) == update_status(job, AGGREGATING_RESULTS, 25, None, None)
           next == IF run[i].reviews > settings.max_review_count
                     THEN "fail_review_count" ELSE "start_gather"
       IN  JobManagerCall(i, Apply, next)
    /\ UNCHANGED <<redisUp, settings, uuids, handler, api, invoked>>

\* mutant: process_job without the review count check
SetAnalyzing_no_precheck(i) ==
    /\ run[i].pc = "set_analyzing"
    /\ LET Apply(job) == update_status(job, ANALYZING_REVIEWS, 25, None, None)
       IN  JobManagerCall(i, Apply, "start_gather")
    /\ UNCHANGED <<redisUp, settings, uuids, handler, api, invoked>>

\* lines 80-93 and 95-110: status ANALYZING, then the review count check; when
\* it passes, asyncio.gather starts the four independent passes
SetAnalyzing(i) ==
    /\ run[i].pc = "set_analyzing"
    /\ LET Apply(job) == update_status(job, ANALYZING_REVIEWS, 25, None, None)
           next == IF run[i].reviews > settings.max_review_count
                     THEN "fail_review_count" ELSE "start_gather"
       IN  JobManagerCall(i, Apply, next)
    /\ UNCHANGED <<redisUp, settings, uuids, handler, api, invoked>>

\* lines 87-93
FailReviewCount(i) ==
    /\ run[i].pc = "fail_review_count"
    /\ LET Apply(job) == fail_job(job,
                "Review count (" \o ToString(run[i].reviews) \o ") exceeds limit ("
                    \o ToString(settings.max_review_count) \o ")",
                COST_LIMIT_EXCEEDED)
       IN  JobManagerCall(i, Apply, "done")
    /\ UNCHANGED <<redisUp, settings, uuids, handler, api, invoked>>

\* lines 99-110: the gather call creates the four pass tasks
StartGather(i) ==
    /\ run[i].pc = "start_gather"
    /\ run' = [run EXCEPT ![i].pc = "gather",
                          ![i].passes = [p \in PassIdx |-> [NoPass EXCEPT !.state = "running"]]]
    /\ invoked' = [invoked EXCEPT ![i] = @ \cup { PassNames[p] : p \in PassIdx }]
    /\ UNCHANGED <<redisUp, redis, memory, settings, uuids, handler, api, statusLog>>

\* one pass task ends: analyze returned (tokens_used holds its cost) or raised
PassReturns(i, p) ==
    /\ run[i].pc = "gather"
    /\ run[i].passes[p].state = "running"
    /\ \/ \E t \in TokenCosts :
            run' = [run EXCEPT ![i].passes[p] = [state |-> "returned", tokens_used |-> t]]
       \/ run' = [run EXCEPT ![i].passes[p] = [state |-> "raised", tokens_used |-> 0]]
    /\ UNCHANGED <<redisUp, redis, memory, settings, uuids, handler, api, statusLog, invoked>>

\* mutant: the error scan reporting the last exception in list order
FirstException_last(passes) ==
    IF \E p \in PassIdx : passes[p].state = "raised"
      THEN CHOOSE p \in PassIdx :
              /\ passes[p].state = "raised"
              /\ \A q \in PassIdx : passes[q].state = "raised" => q <= p
      ELSE 0

\* mutant: gather's results used without the error scan
FirstException_no_scan(passes) == 0

\* lines 113-121: the first exception among pipeline_results, in list order
FirstException(passes) ==
    IF \E p \in PassIdx : passes[p].state = "raised"
      THEN CHOOSE p \in PassIdx :
              /\ passes[p].state = "raised"
              /\ \A q \in PassIdx : passes[q].state = "raised" => p <= q
      ELSE 0

\* lines 126-129
SumTokens(passes) ==
    passes[1].tokens_used + passes[2].tokens_used + passes[3].tokens_used
        + passes[4].tokens_used

\* mutant: the token budget check with >= for >
GatherJoin_ge(i) ==
    /\ run[i].pc = "gather"
    /\ \A p \in PassIdx : run[i].passes[p].state # "running"
    /\ IF FirstException(run[i].passes) # 0
         THEN run' = [run EXCEPT ![i].pc = "fail_pipeline"]
         ELSE LET total_tokens == run[i].total_tokens + SumTokens(run[i].passes) IN
              run' = [run EXCEPT ![i].total_tokens = total_tokens,
                        ![i].pc = IF total_tokens >= settings.max_token_budget_per_job
                                    THEN "fail_budget" ELSE "set_analyzed"]
    /\ UNCHANGED <<redisUp, redis, memory, settings, uuids, handler, api, statusLog, invoked>>

\* lines 104-138: gather returns once all four tasks have ended; error scan,
\* token tracking and the token budget check
GatherJoin(i) ==
    /\ run[i].pc = "gather"
    /\ \A p \in PassIdx : run[i].passes[p].state # "running"
    /\ IF FirstException(run[i].passes) # 0
         THEN run' = [run EXCEPT ![i].pc = "fail_pipeline"]
         ELSE LET total_tokens == run[i].total_tokens + SumTokens(run[i].passes) IN
              run' = [run EXCEPT ![i].total_tokens = total_tokens,
                        ![i].pc = IF total_tokens > settings.max_token_budget_per_job
                                    THEN "fail_budget" ELSE "set_analyzed"]
    /\ UNCHANGED <<redisUp, redis, memory, settings, uuids, handler, api, statusLog, invoked>>

\* lines 116-121
FailPipeline(i) ==
    /\ run[i].pc = "fail_pipeline"
    /\ LET Apply(job) == fail_job(job,
                "AI pipeline failed: " \o PassError(FirstException(run[i].passes)),
                AI_TIMEOUT)
       IN  JobManagerCall(i, Apply, "done")
    /\ UNCHANGED <<redisUp, settings, uuids, handler, api, invoked>>

\* lines 132-138
FailBudget(i) ==
    /\ run[i].pc = "fail_budget"
    /\ LET Apply(job) == fail_job(job,
                "Token usage (" \o ToString(run[i].total_tokens) \o ") exceeds budget ("
                    \o ToString(settings.max_token_budget_per_job) \o ")",
                COST_LIMIT_EXCEEDED)
       IN  JobManagerCall(i, Apply, "done")
    /\ UNCHANGED <<redisUp, settings, uuids, handler, api, invoked>>

\* mutant: the checkpoint after the four passes set to 7 for 70
SetAnalyzed_7(i) ==
    /\ run[i].pc = "set_analyzed"
    /\ LET Apply(job) == update_status(job, ANALYZING_REVIEWS, 7, None, None)
       IN  JobManagerCall(i, Apply, "action")
    /\ UNCHANGED <<redisUp, settings, uuids, handler, api, invoked>>

\* lines 140-144
SetAnalyzed(i) ==
    /\ run[i].pc = "set_analyzed"
    /\ LET Apply(job) == update_status(job, ANALYZING_REVIEWS, 70, None, None)
       IN  JobManagerCall(i, Apply, "action")
    /\ UNCHANGED <<redisUp, settings, uuids, handler, api, invoked>>

\* lines 147-153: the action pass returns and its cost is added, or it raises
ActionPass(i) ==
    /\ run[i].pc = "action"
    /\ invoked' = [invoked EXCEPT ![i] = @ \cup {"action"}]
    /\ \/ \E t \in ActionTokenCosts :
            run' = [run EXCEPT ![i].total_tokens = @ + t, ![i].pc = "set_action_done"]
       \/ \E m \in ExcMessages :
            run' = [run EXCEPT ![i].exc = m, ![i].pc = "except"]
    /\ UNCHANGED <<redisUp, redis, memory, settings, uuids, handler, api, statusLog>>

\* lines 155-159
SetActionDone(i) ==
    /\ run[i].pc = "set_action_done"
    /\ LET Apply(job) == update_status(job, ANALYZING_REVIEWS, 85, None, None)
       IN  JobManagerCall(i, Apply, "set_aggregating")
    /\ UNCHANGED <<redisUp, settings, uuids, handler, api, invoked>>

\* lines 162-166
SetAggregating(i) ==
    /\ run[i].pc = "set_aggregating"
    /\ LET Apply(job) == update_status(job, AGGREGATING_RESULTS, 90, None, None)
       IN  JobManagerCall(i, Apply, "aggregate")
    /\ UNCHANGED <<redisUp, settings, uuids, handler, api, invoked>>

\* the InsightResult fields process_job passes through (aggregator.py lines 81-93)
InsightResult(app_id, platform, reviews_analyzed, analysis_version) ==
    [app_id |-> app_id, platform |-> platform, reviews_analyzed |-> reviews_analyzed,
     analysis_version |-> analysis_version]

\* lines 169-180: the aggregator builds the InsightResult, or a pass output
\* that does not fit the result schema makes it raise
Aggregate(i) ==
    /\ run[i].pc = "aggregate"
    /\ invoked' = [invoked EXCEPT ![i] = @ \cup {"aggregate"}]
    /\ \/ LET job == Val(run[i].job) IN
          run' = [run EXCEPT ![i].pc = "set_result",
                    ![i].result = Some(InsightResult(job.app_id, job.platform, run[i].reviews,
                                                     job.options.analysis_version))]
       \/ \E m \in ExcMessages :
            run' = [run EXCEPT ![i].exc = m, ![i].pc = "except"]
    /\ UNCHANGED <<redisUp, redis, memory, settings, uuids, handler, api, statusLog>>

\* mutant: the result stored with the cost of the four independent passes only
SetResult_sum_only(i) ==
    /\ run[i].pc = "set_result"
    /\ LET Apply(job) == set_result(job, Val(run[i].result), SumTokens(run[i].passes))
       IN  JobManagerCall(i, Apply, "done")
    /\ UNCHANGED <<redisUp, settings, uuids, handler, api, invoked>>

\* line 183
SetResult(i) ==
    /\ run[i].pc = "set_result"
    /\ LET Apply(job) == set_result(job, Val(run[i].result), run[i].total_tokens)
       IN  JobManagerCall(i, Apply, "done")
    /\ UNCHANGED <<redisUp, settings, uuids, handler, api, invoked>>

\* lines 187-193: the catch-all handler
Except(i) ==
    /\ run[i].pc = "except"
    /\ LET Apply(job) == fail_job(job, run[i].exc, SCHEMA_VALIDATION_FAILED)
       IN  JobManagerCall(i, Apply, "done")
    /\ UNCHANGED <<redisUp, settings, uuids, handler, api, invoked>>

----------------------------------------------------------------------------
(* The durable store drops a key whose TTL has run out                      *)

Expire(k) ==
    /\ redis[k] # Absent
    /\ redis' = [redis EXCEPT ![k] = Absent]
    /\ UNCHANGED <<redisUp, memory, settings, uuids, handler, api, run, statusLog, invoked>>

----------------------------------------------------------------------------

RunStep(i) ==
    \/ GetJob(i) \/ SetFetching(i) \/ FetchReviews(i) \/ FailFetch(i)
    \/ SetReviews(i) \/ SetFetched(i) \/ SetAnalyzing(i) \/ FailReviewCount(i)
    \/ StartGather(i) \/ (\E p \in PassIdx : PassReturns(i, p)) \/ GatherJoin(i)
    \/ FailPipeline(i) \/ FailBudget(i) \/ SetAnalyzed(i) \/ ActionPass(i)
    \/ SetActionDone(i) \/ SetAggregating(i) \/ Aggregate(i) \/ SetResult(i)
    \/ Except(i)

\* create_analysis on a store that holds no hash mapping yet: get_by_hash finds
\* nothing, so the handler never loads a cached job
FirstSubmissionStep(h) ==
    \/ Submit(h) \/ GetByHashMapping(h)
    \/ CreateJobData(h) \/ CreateJobHash(h)

HandlerStep(h) == FirstSubmissionStep(h) \/ GetByHashJob(h)

\* One submission to a server whose store is empty, and the run it schedules,
\* with every answer the collaborators can give and the durable store expiring
\* keys at any moment. Which backend the cache uses is fixed for the behaviour.
Next ==
    \/ FirstSubmissionStep(1)
    \/ \E i \in Ids : RunStep(i)
    \/ \E k \in Keys : Expire(k)

Spec == Init /\ [][Next]_vars

\* The same behaviours, with every run that has a step to take taking it: the
\* event loop resumes a coroutine whose awaited call has returned.
FairSpec == Spec /\ \A i \in Ids : WF_vars(RunStep(i))

----------------------------------------------------------------------------
(* Two submissions to the same server, in any interleaving with each other  *)
(* and with the runs they schedule                                          *)

\* the two create_analysis invocations
Submitters == {1, 2}

\* what the two clients send: one valid request (both may send it: the same
\* fingerprint) and a request with an unsupported locale
DedupRequests ==
    { r \in Requests : r.app_url.ios_id # None /\ r.options.locale # "en-US" }

\* The collaborators' answers in these behaviours: the fetch returns no review
\* or LowMaxReviewCount reviews, the passes return in list order with the
\* smallest cost, the action pass costs nothing, nothing raises.
Quiet ==
    /\ \A h \in Handlers :
          handler[h].request # Absent => Val(handler[h].request) \in DedupRequests
    /\ \A i \in Ids :
          /\ run[i].exc = None
          /\ run[i].reviews \in {0, LowMaxReviewCount}
          /\ run[i].total_tokens \in {0, 40000}
          /\ \A p \in PassIdx :
                /\ run[i].passes[p].state # "raised"
                /\ run[i].passes[p].tokens_used \in {0, 10000}
                /\ run[i].passes[p].state = "returned" =>
                      \A q \in 1..(p - 1) : run[i].passes[q].state = "returned"

DedupInit == Init /\ settings.max_review_count = DefaultMaxReviewCount

DedupNext ==
    \/ (\E h \in Submitters : HandlerStep(h)) /\ Quiet'
    \/ (\E i \in Ids : RunStep(i)) /\ Quiet'
    \/ \E k \in Keys : Expire(k)

DedupSpec == DedupInit /\ [][DedupNext]_vars

----------------------------------------------------------------------------
(* The durable store failing under a JobManager call of process_job         *)

\* the positions of process_job that await a JobManager method
StoreCallPcs ==
    {"get_job", "set_fetching", "fail_fetch", "set_reviews", "set_fetched",
     "set_analyzing", "fail_review_count", "fail_pipeline", "fail_budget",
     "set_analyzed", "set_action_done", "set_aggregating", "set_result", "except"}

\* str(e) of the error the Redis client raises when a command fails
StoreErrorMessage == "Connection closed by server."

\* cache.py lines 86 and 98: backend.get / backend.set raise when the connection
\* drops after the ping of _get_backend succeeded (the in-memory fallback never
\* raises); the failed command has no effect. Inside the try block the
\* exception reaches the except handler (worker.py line 187); raised by the
\* fail_job of the handler itself it leaves process_job.
StoreRaises(i) ==
    /\ redisUp
    /\ run[i].pc \in StoreCallPcs
    /\ IF run[i].pc = "except"
         THEN run' = [run EXCEPT ![i].rmw = Absent, ![i].pc = "raised"]
         ELSE run' = [run EXCEPT ![i].rmw = Absent, ![i].exc = StoreErrorMessage,
                                 ![i].pc = "except"]
    /\ UNCHANGED <<redisUp, redis, memory, settings, uuids, handler, api, statusLog, invoked>>

FaultNext ==
    \/ Next
    \/ \E i \in Ids : StoreRaises(i)

\* Spec with store commands that can fail
FaultSpec == Init /\ [][FaultNext]_vars

----------------------------------------------------------------------------
(* The JobManager called directly, one method call after the other, with    *)
(* any arguments, on one identifier                                         *)

ApiProgress == {NoProgress, 50}
ApiErrors == { <<None, None>>, <<"", AI_TIMEOUT>>, <<"boom", AI_TIMEOUT>> }
ApiRequest ==
    [app_url |-> CHOOSE u \in Urls : u.ios_id # None, platform |-> "ios",
     options |-> [review_limit |-> 1000, locale |-> None, analysis_version |-> "v1"]]

\* a whole update method: get_job, then (for a record that exists) the field
\* updates and set_json; the method returns the job it stored, or None
JobManagerMethod(i, method, Apply(_)) ==
    LET job == get_job(i) IN
    IF job = Absent
      THEN /\ api' = Some([method |-> method, arg |-> i, method_returned |-> Absent])
           /\ UNCHANGED <<redis, memory>>
      ELSE /\ set_json(_job_key(i), Apply(Val(job)), settings.result_cache_ttl)
           /\ api' = Some([method |-> method, arg |-> i,
                           method_returned |-> Some(Apply(Val(job)))])

\* mutant: create_job that stores the hash index entry with an expiry of its own
ApiCreateJob_hash_ttl(i) ==
    /\ uuids < i
    /\ uuids' = i
    /\ LET job == NewJob(i, ApiRequest.app_url,
                         extract_app_id(ApiRequest.app_url, ApiRequest.platform),
                         ApiRequest.platform, ApiRequest.options,
                         generate_request_hash(ApiRequest))
       IN  /\ IF _get_backend = "redis"
                THEN /\ redis' = [redis EXCEPT
                                ![_job_key(i)] = <<job, settings.result_cache_ttl>>,
                                ![_hash_key(job.request_hash)] =
                                    <<[analysis_id |-> i], 3600>>]
                     /\ UNCHANGED memory
                ELSE /\ memory' = [memory EXCEPT ![_job_key(i)] = Some(job),
                                     ![_hash_key(job.request_hash)] = Some([analysis_id |-> i])]
                     /\ UNCHANGED redis
           /\ api' = Some([method |-> "create_job", arg |-> i, method_returned |-> Some(job)])
    /\ UNCHANGED <<redisUp, settings, handler, run, statusLog, invoked>>

\* job_manager.py lines 40-76
ApiCreateJob(i) ==
    /\ uuids < i
    /\ uuids' = i
    /\ LET job == NewJob(i, ApiRequest.app_url,
                         extract_app_id(ApiRequest.app_url, ApiRequest.platform),
                         ApiRequest.platform, ApiRequest.options,
                         generate_request_hash(ApiRequest))
       IN  /\ IF _get_backend = "redis"
                THEN /\ redis' = [redis EXCEPT
                                ![_job_key(i)] = <<job, settings.result_cache_ttl>>,
                                ![_hash_key(job.request_hash)] =
                                    <<[analysis_id |-> i], settings.result_cache_ttl>>]
                     /\ UNCHANGED memory
                ELSE /\ memory' = [memory EXCEPT ![_job_key(i)] = Some(job),
                                     ![_hash_key(job.request_hash)] = Some([analysis_id |-> i])]
                     /\ UNCHANGED redis
           /\ api' = Some([method |-> "create_job", arg |-> i, method_returned |-> Some(job)])
    /\ UNCHANGED <<redisUp, settings, handler, run, statusLog, invoked>>

\* job_manager.py lines 92-122
ApiUpdateStatus(i) ==
    /\ \E status \in JobStatus, progress \in ApiProgress, e \in ApiErrors :
        LET Apply(job) == update_status(job, status, progress, e[1], e[2])
        IN  JobManagerMethod(i, "update_status", Apply)
    /\ UNCHANGED <<redisUp, settings, uuids, handler, run, statusLog, invoked>>

\* mutant: set_reviews that creates the record it does not find
ApiSetReviews_upsert(i) ==
    /\ \E n \in {0, LowMaxReviewCount} :
        LET Apply(job) == set_reviews(job, n)
            fresh == NewJob(i, ApiRequest.app_url,
                            extract_app_id(ApiRequest.app_url, ApiRequest.platform),
                            ApiRequest.platform, ApiRequest.options,
                            generate_request_hash(ApiRequest))
        IN  IF get_job(i) = Absent
              THEN /\ set_json(_job_key(i), Apply(fresh), settings.result_cache_ttl)
                   /\ api' = Some([method |-> "set_reviews", arg |-> i,
                                   method_returned |-> Some(Apply(fresh))])
              ELSE JobManagerMethod(i, "set_reviews", Apply)
    /\ UNCHANGED <<redisUp, settings, uuids, handler, run, statusLog, invoked>>

\* job_manager.py lines 124-144
ApiSetReviews(i) ==
    /\ \E n \in {0, LowMaxReviewCount} :
        LET Apply(job) == set_reviews(job, n)
        IN  JobManagerMethod(i, "set_reviews", Apply)
    /\ UNCHANGED <<redisUp, settings, uuids, handler, run, statusLog, invoked>>

\* job_manager.py lines 146-170
ApiSetResult(i) ==
    /\ \E t \in ActionTokenCosts :
        LET Apply(job) == set_result(job, InsightResult(job.app_id, job.platform,
                                          job.reviews, job.options.analysis_version), t)
        IN  JobManagerMethod(i, "set_result", Apply)
    /\ UNCHANGED <<redisUp, settings, uuids, handler, run, statusLog, invoked>>

\* job_manager.py lines 172-184
ApiFailJob(i) ==
    /\ \E e \in ApiErrors :
        LET Apply(job) == fail_job(job, e[1], e[2])
        IN  JobManagerMethod(i, "fail_job", Apply)
    /\ UNCHANGED <<redisUp, settings, uuids, handler, run, statusLog, invoked>>

\* job_manager.py lines 85-90
ApiGetByHash ==
    /\ api' = Some([method |-> "get_by_hash", arg |-> generate_request_hash(ApiRequest),
                    method_returned |-> get_by_hash(generate_request_hash(ApiRequest))])
    /\ UNCHANGED <<redisUp, redis, memory, settings, uuids, handler, run, statusLog, invoked>>

StoreNext ==
    \/ ApiCreateJob(1)
    \/ ApiUpdateStatus(1)
    \/ ApiSetReviews(1)
    \/ ApiSetResult(1)
    \/ ApiFailJob(1)
    \/ ApiGetByHash
    \/ \E k \in Keys : Expire(k)

StoreSpec == Init /\ [][StoreNext]_vars

----------------------------------------------------------------------------
(* generate_request_hash applied to pairs of requests                       *)

\* URLs that pass validate_app_url and extract_app_id: the pattern's .+ admits
\* any character after /app/, "|" included
HashUrls ==
    { [text |-> "https://apps.apple.com/us/app/x/id1", ios_id |-> "1", android_id |-> None],
      [text |-> "https://apps.apple.com/us/app/x/id1|5|en-US|v1", ios_id |-> "1",
       android_id |-> None] }

\* requests that pass the locale check of create_analysis; analysis_version
\* is any string
HashRequests ==
    { [app_url |-> u, platform |-> pf,
       options |-> [review_limit |-> n, locale |-> l, analysis_version |-> v]] :
        u \in HashUrls, pf \in {"ios", "android"}, n \in {5, 7},
        l \in {None} \cup locales_list, v \in {"v2", "v1|7|en-GB|v2"} }

\* the four fields the hash is specified over
HashFields(request) ==
    <<request.app_url.text, request.options.review_limit, request.options.locale,
      request.options.analysis_version>>

PureInit ==
    /\ Init
    /\ redisUp
    /\ settings.max_review_count = DefaultMaxReviewCount

\* routes.py line 93, for two requests
HashCall ==
    /\ api = Absent
    /\ \E r1 \in HashRequests, r2 \in HashRequests :
          api' = Some([method |-> "generate_request_hash", arg |-> <<r1, r2>>,
                       method_returned |-> <<generate_request_hash(r1),
                                             generate_request_hash(r2)>>])
    /\ UNCHANGED <<redisUp, redis, memory, settings, uuids, handler, run, statusLog, invoked>>

HashNext == HashCall

HashSpec == PureInit /\ [][HashNext]_vars

----------------------------------------------------------------------------
(* aggregator.py: InsightAggregator, its builders applied to pass outputs   *)

\* a key the pass output does not hold
Missing == -1

\* percentages are counted in tenths of a percent: 333 is 33.3
SentimentInputs == {Missing, 0, 1, 15, 200, 310, 350, 400, 490}

\* round(num / den, 0) as Python rounds: to the nearest integer, a tie to the
\* even one (num >= 0, den > 0)
RoundHalfEven(num, den) ==
    LET q == num \div den
        r == num % den
    IN  IF 2 * r < den THEN q
        ELSE IF 2 * r > den THEN q + 1
        ELSE IF q % 2 = 0 THEN q ELSE q + 1

\* round(num / den * 100, 1) on floats: the nearest tenth, and when the
\* quotient lies exactly between two tenths either of them, because the float
\* computed for it lies just below or just above the middle
\* (round(31 / 80 * 100, 1) is 38.8 and round(49 / 80 * 100, 1) is 61.3)
RoundFloat(num, den) ==
    LET q == num \div den
        r == num % den
    IN  IF 2 * r < den THEN {q}
        ELSE IF 2 * r > den THEN {q + 1}
        ELSE {q, q + 1}

\* schemas.py lines 139-143: each field of SentimentBreakdown has ge=0, le=100
SentimentBreakdown(positive, neutral, negative) ==
    [positive |-> positive, neutral |-> neutral, negative |-> negative,
     raised |-> IF \A v \in {positive, neutral, negative} : v \in 0..1000
                  THEN None ELSE "ValidationError"]

\* lines 95-114: the breakdowns the builder can give for a pass output
_build_sentiment_breakdown(breakdown) ==
    LET positive == IF breakdown.positive = Missing THEN 333 ELSE breakdown.positive
        neutral == IF breakdown.neutral = Missing THEN 333 ELSE breakdown.neutral
        negative == IF breakdown.negative = Missing THEN 333 ELSE breakdown.negative
        total == positive + neutral + negative
    IN  IF total > 0
          THEN { SentimentBreakdown(p, n, 1000 - p - n) :
                   p \in RoundFloat(positive * 1000, total),
                   n \in RoundFloat(neutral * 1000, total) }
          ELSE { SentimentBreakdown(positive, neutral, negative) }

\* line 58
SentimentBreakdownCall ==
    /\ api = Absent
    /\ \E p \in SentimentInputs, n \in SentimentInputs, g \in SentimentInputs :
          LET breakdown == [positive |-> p, neutral |-> n, negative |-> g] IN
          \E built \in _build_sentiment_breakdown(breakdown) :
              api' = Some([method |-> "_build_sentiment_breakdown", arg |-> breakdown,
                           method_returned |-> built])
    /\ UNCHANGED <<redisUp, redis, memory, settings, uuids, handler, run, statusLog, invoked>>

\* the longest list a pass returns to the aggregator
MaxListLen == 12

\* labels a pass can report: the valid ones in either case, "critical", a word
\* outside the enum, no label (the key is missing) and a JSON null
Null == "<null>"
NoLabel == "<missing>"
LabelSeq == <<"low", "medium", "high", "HIGH", "critical", "CRITICAL", "urgent", NoLabel, Null>>
Labels == { LabelSeq[k] : k \in 1..Len(LabelSeq) }

\* str.lower() on the labels above
Lower(label) ==
    CASE label = "HIGH" -> "high"
      [] label = "CRITICAL" -> "critical"
      [] OTHER -> label

\* schemas.py lines 34-45: the values of Severity and of Priority
SeverityValues == {"low", "medium", "high"}

\* Severity(label.lower()) with the except ValueError fallback
Severity(label) == IF Lower(label) \in SeverityValues THEN Lower(label) ELSE "medium"

\* lines 171-179: Priority(label.lower()) after the critical fold
Priority(label) ==
    LET priority_str == IF Lower(label) = "critical" THEN "high" ELSE Lower(label)
    IN  IF priority_str \in SeverityValues THEN priority_str ELSE "medium"

\* dict.get(key, default) on a value that may be missing
Get(v, missing, default) == IF v = missing THEN default ELSE v

\* mutant: a slice that keeps the whole list
Slice_no_cut(seq, n) == seq

\* seq[:n]
Slice(seq, n) == SubSeq(seq, 1, IF Len(seq) < n THEN Len(seq) ELSE n)

\* what a builder does: it returns its list, or an item made it raise
Built(items) == [raised |-> None, value |-> items]
Raised(exception) == [raised |-> exception, value |-> <<>>]

\* the error of the first item, in list order, that makes a builder raise:
\* .lower() on a JSON null, or a count below the schema's ge=1
ItemError(items, HasLabel, HasCount) ==
    LET Bad(k) == \/ HasLabel /\ items[k].label = Null
                  \/ HasCount /\ Get(items[k].count, Missing, 1) < 1
    IN  IF \E k \in 1..Len(items) : Bad(k)
          THEN LET k == CHOOSE k \in 1..Len(items) :
                            Bad(k) /\ \A j \in 1..(k - 1) : ~Bad(j)
               IN  IF HasLabel /\ items[k].label = Null
                     THEN "AttributeError" ELSE "ValidationError"
          ELSE None

\* lines 116-133; an item is [name, count, label] for issue, frequency, severity
_build_top_issues(issues) ==
    LET top == Slice(issues, 10) IN
    IF ItemError(top, TRUE, TRUE) # None THEN Raised(ItemError(top, TRUE, TRUE))
    ELSE Built([k \in 1..Len(top) |->
                  [issue |-> Get(top[k].name, NoLabel, "Unknown issue"),
                   frequency |-> Get(top[k].count, Missing, 1),
                   severity |-> Severity(Get(top[k].label, NoLabel, "medium"))]])

\* lines 135-145; an item is [name, count, label] for feature, count, (unused)
_build_feature_requests(features) ==
    LET top == Slice(features, 10) IN
    IF ItemError(top, FALSE, TRUE) # None THEN Raised(ItemError(top, FALSE, TRUE))
    ELSE Built([k \in 1..Len(top) |->
                  [feature |-> Get(top[k].name, NoLabel, "Unknown feature"),
                   count |-> Get(top[k].count, Missing, 1)]])

\* lines 147-164; monetization is <<>> (None or {}), or a dict whose risks
\* key holds a list of [name, count, label] for risk, (unused), confidence
_build_monetization_risks(monetization) ==
    LET risks == IF monetization # Absent THEN Val(monetization).risks ELSE <<>>
        top == Slice(risks, 5)
    IN  IF ItemError(top, TRUE, FALSE) # None THEN Raised(ItemError(top, TRUE, FALSE))
        ELSE Built([k \in 1..Len(top) |->
                      [risk |-> Get(top[k].name, NoLabel, "Unknown risk"),
                       confidence |-> Severity(Get(top[k].label, NoLabel, "medium"))]])

\* mutant: the action builder without the critical fold
_build_recommended_actions_no_fold(actions) ==
    LET top == Slice(actions, 10) IN
    IF ItemError(top, TRUE, FALSE) # None THEN Raised(ItemError(top, TRUE, FALSE))
    ELSE Built([k \in 1..Len(top) |->
                  [action |-> Get(top[k].name, NoLabel, "Unknown action"),
                   priority |-> Severity(Get(top[k].label, NoLabel, "medium"))]])

\* lines 166-187; an item is [name, count, label] for action, (unused), priority
_build_recommended_actions(actions) ==
    LET top == Slice(actions, 10) IN
    IF ItemError(top, TRUE, FALSE) # None THEN Raised(ItemError(top, TRUE, FALSE))
    ELSE Built([k \in 1..Len(top) |->
                  [action |-> Get(top[k].name, NoLabel, "Unknown action"),
                   priority |-> Priority(Get(top[k].label, NoLabel, "medium"))]])

\* the k-th item of a pass output
Item(k, count, label) == [name |-> "item " \o ToString(k), count |-> count, label |-> label]

\* Pass outputs: lists of every length up to MaxListLen whose labels run
\* through the strings of LabelSeq from any starting point (a missing count
\* at every third item), and one-item lists with every count, every label
\* (the null included) and a missing name.
ListInputs ==
    { [k \in 1..len |->
          Item(k, IF k % 3 = 0 THEN Missing ELSE k,
               LabelSeq[((k + shift) % (Len(LabelSeq) - 1)) + 1])] :
        len \in 0..MaxListLen, shift \in 0..(Len(LabelSeq) - 2) }
    \cup { << [name |-> n, count |-> c, label |-> l] >> :
             n \in {"item", NoLabel}, c \in {Missing, 0, 2}, l \in Labels }

\* a builder raising makes aggregate raise: there is no InsightResult
AggregateRaised(built) ==
    \E f \in {"top_issues", "feature_requests", "monetization_risks",
               "recommended_actions"} : built[f].raised # None

\* lines 57-93, called as worker.py lines 169-180 call it: the four list
\* builders applied to one pass output (the monetization output may also be
\* None), reviews_analyzed handed through
aggregate(reviews_analyzed, items, monetization) ==
    [top_issues |-> _build_top_issues(items),
     feature_requests |-> _build_feature_requests(items),
     monetization_risks |-> _build_monetization_risks(monetization),
     recommended_actions |-> _build_recommended_actions(items),
     reviews_analyzed |-> reviews_analyzed]

BuildListCall ==
    /\ api = Absent
    /\ \E items \in ListInputs, has_monetization \in BOOLEAN,
          reviews \in FetchCounts(1000) \ {0} :
          LET monetization == IF has_monetization THEN Some([risks |-> items]) ELSE Absent
          IN  api' = Some([method |-> "aggregate",
                           arg |-> [reviews |-> reviews, items |-> items,
                                    monetization |-> monetization],
                           method_returned |-> aggregate(reviews, items, monetization)])
    /\ UNCHANGED <<redisUp, redis, memory, settings, uuids, handler, run, statusLog, invoked>>

AggregateNext ==
    \/ SentimentBreakdownCall
    \/ BuildListCall

AggregateSpec == PureInit /\ [][AggregateNext]_vars

----------------------------------------------------------------------------
(* pipelines/base.py, pipelines/issues.py, pipelines/sentiment.py: one      *)
(* analysis pass over the answers of the external call, one per batch       *)

\* the largest number of batches of one pass
MaxBatches == 3

\* What the external call gives for one batch: kind "error" is a call that
\* raises (network, timeout), kind "text" is content json.loads rejects, kind
\* "json" is content that parses, to the value in parsed.  A parsed JSON
\* object is a record with type "dict", the set of its keys, and one field
\* per key; a parsed JSON array is [type |-> "list"].
ApiError == [kind |-> "error"]
Text == [kind |-> "text"]
Json(parsed) == [kind |-> "json", parsed |-> parsed]
JsonList == [type |-> "list"]

\* base.py lines 72-121: the parsed content, {"raw": content} when
\* json.loads raises JSONDecodeError, and every other exception re-raised
_call_openai(response) ==
    CASE response.kind = "error" -> Raised("APIConnectionError")
      [] response.kind = "text" -> Built([type |-> "dict", keys |-> {"raw"}])
      [] OTHER -> Built(response.parsed)

\* issues.py line 113: str.lower().strip() on the issue names of the inputs
LowerStrip(name) ==
    CASE name = " Login Fails " -> "login fails"
      [] name = "LOGIN FAILS" -> "login fails"
      [] name = "  " -> ""
      [] OTHER -> name

\* issues.py lines 140-142
_severity_level(severity) ==
    CASE severity = "low" -> 1
      [] severity = "medium" -> 2
      [] severity = "high" -> 3
      [] OTHER -> 1

\* issues.py lines 98-108: the batch loop.  result.get on a JSON array and
\* all_issues.extend(None) raise; a missing "issues" key adds nothing.  An
\* "issues" value is Some(list), or Absent for a JSON null.
RECURSIVE IssueBatches(_, _)
IssueBatches(responses, all_issues) ==
    IF responses = <<>> THEN Built(all_issues)
    ELSE LET result == _call_openai(Head(responses)) IN
         IF result.raised # None THEN result
         ELSE IF result.value.type # "dict" THEN Raised("AttributeError")
         ELSE IF "issues" \notin result.value.keys
                THEN IssueBatches(Tail(responses), all_issues)
         ELSE IF result.value.issues = Absent THEN Raised("TypeError")
         ELSE IssueBatches(Tail(responses), all_issues \o Val(result.value.issues))

\* issues.py lines 111-129: issue_map in insertion order; an item is
\* [name, count, label, category] for issue, frequency, severity, category
RECURSIVE MergeIssues(_, _)
MergeIssues(all_issues, issue_map) ==
    IF all_issues = <<>> THEN issue_map
    ELSE LET issue == Head(all_issues)
             name == LowerStrip(Get(issue.name, NoLabel, ""))
         IN  IF name = "" THEN MergeIssues(Tail(all_issues), issue_map)
             ELSE IF \E k \in 1..Len(issue_map) : issue_map[k].key = name
               THEN LET k == CHOOSE k \in 1..Len(issue_map) : issue_map[k].key = name
                        severity == Get(issue.label, NoLabel, "low")
                    IN  MergeIssues(Tail(all_issues),
                          [issue_map EXCEPT
                             ![k].frequency = @ + Get(issue.count, Missing, 1),
                             ![k].severity =
                                 IF _severity_level(severity) > _severity_level(@)
                                   THEN severity ELSE @])
               ELSE MergeIssues(Tail(all_issues),
                      Append(issue_map,
                             [key |-> name,
                              issue |-> Get(issue.name, NoLabel, name),
                              frequency |-> Get(issue.count, Missing, 1),
                              severity |-> Get(issue.label, NoLabel, "medium"),
                              category |-> Get(issue.category, NoLabel, "other")]))

\* issues.py lines 132-136: sorted(..., reverse=True) on frequency times
\* severity level; the sort is stable
IssueScore(x) == x.frequency * _severity_level(x.severity)

RECURSIVE SortedIssues(_)
SortedIssues(seq) ==
    IF seq = <<>> THEN <<>>
    ELSE LET x == Head(seq)
             rest == SortedIssues(Tail(seq))
             before == Cardinality({k \in 1..Len(rest) : IssueScore(rest[k]) > IssueScore(x)})
         IN  SubSeq(rest, 1, before) \o <<x>> \o SubSeq(rest, before + 1, Len(rest))

\* issues.py lines 81-138, on the answers of the external call to the
\* batches of the reviews (no review: no batch, and [] is returned)
IssuePipeline_analyze(responses) ==
    IF responses = <<>> THEN Built(<<>>)
    ELSE LET batches == IssueBatches(responses, <<>>) IN
         IF batches.raised # None THEN batches
         ELSE LET sorted_issues == SortedIssues(MergeIssues(batches.value, <<>>))
                  top == Slice(sorted_issues, 20)
              IN  Built([k \in 1..Len(top) |->
                           [issue |-> top[k].issue,
                            frequency |-> top[k].frequency,
                            severity |-> top[k].severity,
                            category |-> top[k].category]])

IssueDict(issues) == [type |-> "dict", keys |-> {"issues"}, issues |-> issues]
IssueItem(name, count, label, category) ==
    [name |-> name, count |-> count, label |-> label, category |-> category]

\* the labels the prompt of the pass asks for, and no label
IssueLabels == SeverityValues \cup {NoLabel}

\* Answers to one batch: one issue (every name spelling, an empty and a missing
\* name, every frequency, every label), no issue, two issues of one name,
\* and the answers that are not the expected object.
IssueAnswers ==
    { Json(IssueDict(Some(<<IssueItem(n, c, l, "bug")>>))) :
        n \in {"login fails", " Login Fails ", "crash", "  "},
        c \in {Missing, 3, 5}, l \in IssueLabels }
    \cup { Json(IssueDict(Some(<<IssueItem(NoLabel, 3, "high", NoLabel)>>))),
           Json(IssueDict(Some(<<IssueItem("crash", 5, "low", NoLabel),
                                 IssueItem("LOGIN FAILS", 3, "high", "crash"),
                                 IssueItem("crash", 3, "medium", "bug")>>))),
           Json(IssueDict(Some(<<>>))) }

MalformedAnswers ==
    { Text, Json(JsonList), Json([type |-> "dict", keys |-> {"error"}]),
      Json(IssueDict(Absent)) }

\* three batches and more: the spellings of one name
IssueAnswers3 ==
    { Json(IssueDict(Some(<<IssueItem(n, c, l, "bug")>>))) :
        n \in {"login fails", " Login Fails "}, c \in {3, 5}, l \in IssueLabels }
    \cup {Text}

IssueResponses ==
    {<<>>}
    \cup { <<a>> : a \in IssueAnswers \cup MalformedAnswers \cup {ApiError} }
    \cup { <<a, b>> : a, b \in IssueAnswers \cup MalformedAnswers \cup {ApiError} }
    \cup UNION { [1..n -> IssueAnswers3] : n \in 3..MaxBatches }

IssuesAnalyzeCall ==
    /\ api = Absent
    /\ \E responses \in IssueResponses :
          api' = Some([method |-> "IssuePipeline.analyze",
                       arg |-> responses,
                       method_returned |-> IssuePipeline_analyze(responses)])
    /\ UNCHANGED <<redisUp, redis, memory, settings, uuids, handler, run, statusLog, invoked>>

\* sentiment.py: a parsed answer of the sentiment pass.  Percentages are in
\* tenths of a percent and emotion frequencies in hundredths; a breakdown of
\* Absent is an answer without the sentiment_breakdown key.
SentimentDict(overall, breakdown, emotions) ==
    [type |-> "dict",
     keys |-> {"overall_sentiment", "emotions"}
                \cup (IF breakdown = Absent THEN {} ELSE {"sentiment_breakdown"}),
     overall_sentiment |-> overall,
     sentiment_breakdown |-> breakdown,
     emotions |-> emotions]

Breakdown(positive, neutral, negative) ==
    [positive |-> positive, neutral |-> neutral, negative |-> negative]

\* r.get("sentiment_breakdown", {}).get(field, 0)
BreakdownGet(r, field) ==
    IF "sentiment_breakdown" \notin r.keys THEN 0
    ELSE Get(Val(r.sentiment_breakdown)[field], Missing, 0)

\* sum(... for r in all_results)
RECURSIVE BreakdownSum(_, _)
BreakdownSum(all_results, field) ==
    IF all_results = <<>> THEN 0
    ELSE BreakdownGet(Head(all_results), field) + BreakdownSum(Tail(all_results), field)

\* result.get("emotions", []) of every result, in order
RECURSIVE AllEmotions(_)
AllEmotions(all_results) ==
    IF all_results = <<>> THEN <<>>
    ELSE (IF "emotions" \in Head(all_results).keys THEN Head(all_results).emotions ELSE <<>>)
         \o AllEmotions(Tail(all_results))

\* sentiment.py lines 140-146: emotion_freq in insertion order
RECURSIVE MergeEmotions(_, _)
MergeEmotions(emotions, emotion_freq) ==
    IF emotions = <<>> THEN emotion_freq
    ELSE LET name == Get(Head(emotions).emotion, NoLabel, "")
             freq == Get(Head(emotions).frequency, Missing, 0)
         IN  IF name = "" THEN MergeEmotions(Tail(emotions), emotion_freq)
             ELSE IF \E k \in 1..Len(emotion_freq) : emotion_freq[k].emotion = name
               THEN LET k == CHOOSE k \in 1..Len(emotion_freq) : emotion_freq[k].emotion = name
                    IN  MergeEmotions(Tail(emotions),
                                      [emotion_freq EXCEPT ![k].frequency = @ + freq])
               ELSE MergeEmotions(Tail(emotions),
                                  Append(emotion_freq, [emotion |-> name, frequency |-> freq]))

\* sentiment.py line 151: sorted(..., key=lambda x: -x[1]); the sort is stable
RECURSIVE SortedEmotions(_)
SortedEmotions(seq) ==
    IF seq = <<>> THEN <<>>
    ELSE LET x == Head(seq)
             rest == SortedEmotions(Tail(seq))
             before == Cardinality({k \in 1..Len(rest) : rest[k].frequency > x.frequency})
         IN  SubSeq(rest, 1, before) \o <<x>> \o SubSeq(rest, before + 1, Len(rest))

\* sentiment.py lines 154-163: avg_positive > avg_negative + 10 and its mirror,
\* on the sums (ten points are 100 tenths)
OverallSentiment(total_positive, total_negative, count) ==
    IF total_positive > total_negative + 100 * count THEN "positive"
    ELSE IF total_negative > total_positive + 100 * count THEN "negative"
    ELSE "neutral"

\* the results of the batch loop, lines 118-126, or the first call that raised
RECURSIVE SentimentBatches(_, _)
SentimentBatches(responses, all_results) ==
    IF responses = <<>> THEN Built(all_results)
    ELSE LET result == _call_openai(Head(responses)) IN
         IF result.raised # None THEN result
         ELSE SentimentBatches(Tail(responses), Append(all_results, result.value))

\* sentiment.py lines 97-173, on the answers of the external call to the
\* batches of the reviews (no review: no batch)
SentimentPipeline_analyze(responses) ==
    IF responses = <<>>
      THEN Built(SentimentDict("neutral", Some(Breakdown(330, 340, 330)), <<>>))
    ELSE LET batches == SentimentBatches(responses, <<>>)
             all_results == batches.value
             count == Len(all_results)
         IN  IF batches.raised # None THEN batches
             ELSE IF count = 1 THEN Built(all_results[1])
             ELSE IF \E k \in 1..count : all_results[k].type # "dict"
               THEN Raised("AttributeError")
             ELSE LET total_positive == BreakdownSum(all_results, "positive")
                      total_neutral == BreakdownSum(all_results, "neutral")
                      total_negative == BreakdownSum(all_results, "negative")
                      emotion_freq == SortedEmotions(MergeEmotions(AllEmotions(all_results), <<>>))
                      emotions == [k \in 1..Len(emotion_freq) |->
                                     [emotion |-> emotion_freq[k].emotion,
                                      frequency |-> RoundHalfEven(emotion_freq[k].frequency, count)]]
                  IN  Built(SentimentDict(
                          OverallSentiment(total_positive, total_negative, count),
                          Some(Breakdown(RoundHalfEven(total_positive, count),
                                         RoundHalfEven(total_neutral, count),
                                         RoundHalfEven(total_negative, count))),
                          Slice(emotions, 10)))

SentimentLabels == {"positive", "neutral", "negative"}

\* breakdowns an answer can carry: clear majorities, leads of exactly ten
\* points and of just over ten points, a tie, a missing percentage, no breakdown
AnswerBreakdowns ==
    { Some(Breakdown(800, 100, 100)), Some(Breakdown(100, 100, 800)),
      Some(Breakdown(450, 200, 350)), Some(Breakdown(452, 198, 350)),
      Some(Breakdown(350, 300, 350)), Some(Breakdown(Missing, 500, 500)), Absent }

AnswerEmotions ==
    { <<>>,
      << [emotion |-> "anger", frequency |-> 300], [emotion |-> "joy", frequency |-> 500],
         [emotion |-> NoLabel, frequency |-> 100], [emotion |-> "anger", frequency |-> Missing] >> }

SentimentAnswers ==
    { Json(SentimentDict(l, b, e)) :
        l \in SentimentLabels, b \in AnswerBreakdowns, e \in AnswerEmotions }
    \cup {Text, Json(JsonList), ApiError}

SentimentAnswers3 ==
    { Json(SentimentDict("neutral", b, <<>>)) :
        b \in { Some(Breakdown(800, 100, 100)), Some(Breakdown(452, 198, 350)),
                Some(Breakdown(100, 100, 800)) } }
    \cup {Text}

SentimentResponses ==
    {<<>>}
    \cup { <<a>> : a \in SentimentAnswers }
    \cup { <<a, b>> : a, b \in SentimentAnswers }
    \cup UNION { [1..n -> SentimentAnswers3] : n \in 3..MaxBatches }

SentimentAnalyzeCall ==
    /\ api = Absent
    /\ \E responses \in SentimentResponses :
          api' = Some([method |-> "SentimentPipeline.analyze",
                       arg |-> responses,
                       method_returned |-> SentimentPipeline_analyze(responses)])
    /\ UNCHANGED <<redisUp, redis, memory, settings, uuids, handler, run, statusLog, invoked>>

PipelineNext ==
    \/ IssuesAnalyzeCall
    \/ SentimentAnalyzeCall

PipelineSpec == PureInit /\ [][PipelineNext]_vars

----------------------------------------------------------------------------
(* cache.py: the durable store becoming unreachable and reachable again     *)

\* cache.py lines 21-45 and 72-75: every get_json and set_json pings the
\* durable store and uses it when the ping answers, the in-process dict when
\* it does not; what either backend holds is not touched by the change
ReachabilityChange ==
    /\ redisUp' = ~redisUp
    /\ UNCHANGED <<redis, memory, settings, uuids, handler, run, api, statusLog, invoked>>

\* One submission and its run, with the collaborators' answers of Quiet, keys
\* expiring and the durable store's reachability changing at any moment
FlipNext ==
    \/ FirstSubmissionStep(1) /\ Quiet'
    \/ (\E i \in Ids : RunStep(i)) /\ Quiet'
    \/ \E k \in Keys : Expire(k)
    \/ ReachabilityChange

FlipSpec == DedupInit /\ [][FlipNext]_vars

----------------------------------------------------------------------------
(* Vocabulary of the properties                                             *)

Terminal == {COMPLETED, FAILED}

\* the job records the two backends hold
StoredJobs ==
    { redis[k][1] : k \in { x \in JobKeys : redis[x] # Absent } }
        \cup { Val(memory[k]) : k \in { x \in JobKeys : memory[x] # Absent } }

Stored(i) == get_job(i) # Absent
Rec(i) == Val(get_job(i))

\* the order of the lifecycle states
Rank(status) ==
    CASE status = CREATED -> 1
      [] status = FETCHING_REVIEWS -> 2
      [] status = ANALYZING_REVIEWS -> 3
      [] status = AGGREGATING_RESULTS -> 4
      [] status = COMPLETED -> 5
      [] OTHER -> 6

\* a sequence without its consecutive repetitions
RECURSIVE Collapse(_)
Collapse(seq) ==
    IF Len(seq) <= 1 THEN seq
    ELSE IF seq[1] = seq[2] THEN Collapse(Tail(seq))
    ELSE <<seq[1]>> \o Collapse(Tail(seq))

HappyPath ==
    << <<CREATED, 0>>, <<FETCHING_REVIEWS, 5>>, <<FETCHING_REVIEWS, 20>>,
       <<ANALYZING_REVIEWS, 25>>, <<ANALYZING_REVIEWS, 70>>, <<ANALYZING_REVIEWS, 85>>,
       <<AGGREGATING_RESULTS, 90>>, <<COMPLETED, 100>> >>

----------------------------------------------------------------------------
\* C1: a job record that is COMPLETED or FAILED is left as it is by every
\* later update_status, set_result or fail_job call on its identifier: while
\* the record stays in the store, a step does not change it.
C1_TerminalStable ==
    [][\A i \in Ids :
          (Stored(i) /\ Rec(i).status \in Terminal /\ Stored(i)') => Rec(i)' = Rec(i)]_vars

\* C2: the status values written to a job's record form a prefix of CREATED,
\* FETCHING, ANALYZING, AGGREGATING, COMPLETED with repetitions of the current
\* state, optionally ended by one FAILED: the first write is CREATED, a write
\* either repeats the state, moves to the next one or is FAILED, and nothing
\* is written after COMPLETED or FAILED.
C2_StatusSequence ==
    \A i \in Ids :
        LET log == statusLog[i] IN
        /\ Len(log) > 0 => log[1][1] = CREATED
        /\ \A k \in 1..(Len(log) - 1) :
              /\ log[k][1] \notin Terminal
              /\ \/ log[k + 1][1] = FAILED
                 \/ Rank(log[k + 1][1]) \in {Rank(log[k][1]), Rank(log[k][1]) + 1}

\* a run wrote every state up to COMPLETED
C2_Witness ==
    \E i \in Ids : Len(statusLog[i]) > 1 /\ statusLog[i][Len(statusLog[i])][1] = COMPLETED

\* a run wrote FAILED after several states
C2_WitnessFailed ==
    \E i \in Ids : Len(statusLog[i]) > 3 /\ statusLog[i][Len(statusLog[i])][1] = FAILED

\* C3: when a job completes, the (status, progress) values stored in its record
\* were, in order and without consecutive repetitions, created/0, fetching/5,
\* fetching/20, analyzing/25, analyzing/70, analyzing/85, aggregating/90,
\* completed/100.
C3_HappyPathProgress ==
    \A i \in Ids :
        (Len(statusLog[i]) > 0 /\ statusLog[i][Len(statusLog[i])][1] = COMPLETED)
            => Collapse(statusLog[i]) = HappyPath

C3_Witness ==
    \E i \in Ids : run[i].pc = "done" /\ Stored(i) /\ Rec(i).status = COMPLETED
                   /\ Rec(i).progress = 100

\* C4: in every stored job record, result is set exactly when status is COMPLETED.
C4_ResultIffCompleted ==
    \A job \in StoredJobs : (job.result # Absent) <=> (job.status = COMPLETED)

C4_Witness ==
    /\ \E job \in StoredJobs : job.status = COMPLETED /\ job.result # Absent
    /\ \E i \in Ids : run[i].pc = "done"

\* C5: in every stored job record, error and error_code are both set exactly
\* when status is FAILED.
C5_ErrorIffFailed ==
    \A job \in StoredJobs :
        (job.error # None /\ job.error_code # None) <=> (job.status = FAILED)

\* C6: in the writes to a job's record, progress never decreases from one
\* write to the next while the status is not terminal, and every progress
\* written lies in 0..100.
C6_ProgressMonotonic ==
    \A i \in Ids :
        LET log == statusLog[i] IN
        /\ \A k \in 1..Len(log) : log[k][2] \in 0..100
        /\ \A k \in 1..(Len(log) - 1) :
              log[k][1] \notin Terminal => log[k][2] <= log[k + 1][2]

C6_Witness ==
    \E i \in Ids : Len(statusLog[i]) >= 8 /\ statusLog[i][Len(statusLog[i])][2] = 100

\* C8: when the fetch returned no review, the run calls no analysis pass, and
\* once it has ended the record (while stored) is FAILED with
\* ERR_REVIEW_FETCH_FAILED, progress 5 and no reviews.
ZeroFetch(i) ==
    /\ "fetch" \in invoked[i]
    /\ run[i].reviews = 0
    /\ run[i].exc = None

C8_ZeroFetchFails ==
    \A i \in Ids :
        ZeroFetch(i) =>
            /\ invoked[i] = {"fetch"}
            /\ run[i].pc \in {"fail_fetch", "done"}
            /\ Stored(i) => /\ Rec(i).reviews = 0
                            /\ Rec(i).progress <= 5
                            /\ Rec(i).result = Absent
            /\ (run[i].pc = "done" /\ Stored(i)) =>
                  /\ Rec(i).status = FAILED
                  /\ Rec(i).error_code = REVIEW_FETCH_FAILED
                  /\ Rec(i).error # None
                  /\ Rec(i).progress = 5

C8_Witness ==
    \E i \in Ids : ZeroFetch(i) /\ run[i].pc = "done" /\ Stored(i) /\ Rec(i).status = FAILED

\* C9: when one of the four independent passes raised, neither the action
\* pass nor the aggregator is called, and once the run has ended the record
\* (while stored) is FAILED with ERR_AI_TIMEOUT, an error message that holds
\* the message of a pass that raised, and no result.
SomePassRaised(i) == \E p \in PassIdx : run[i].passes[p].state = "raised"

C9_AllOrNothing ==
    \A i \in Ids :
        SomePassRaised(i) =>
            /\ "action" \notin invoked[i]
            /\ "aggregate" \notin invoked[i]
            /\ run[i].pc \in {"gather", "fail_pipeline", "done"}
            /\ Stored(i) => Rec(i).result = Absent
            /\ (run[i].pc = "done" /\ Stored(i)) =>
                  /\ Rec(i).status = FAILED
                  /\ Rec(i).error_code = AI_TIMEOUT
                  /\ \E p \in PassIdx :
                        /\ run[i].passes[p].state = "raised"
                        /\ Rec(i).error = "AI pipeline failed: " \o PassError(p)

\* one pass raised, another had returned its output, and the job is FAILED
C9_Witness ==
    \E i \in Ids :
        /\ SomePassRaised(i)
        /\ \E p \in PassIdx : run[i].passes[p].state = "returned"
        /\ run[i].pc = "done" /\ Stored(i) /\ Rec(i).status = FAILED

\* C10: when the four independent passes all returned, a token sum above
\* max_token_budget_per_job ends the run before the action pass (the action
\* pass is not called, total_tokens is the sum of the four, and the record,
\* while stored, ends FAILED with ERR_COST_LIMIT_EXCEEDED and tokens_used 0);
\* a token sum up to the budget takes the run to the action pass.
AllReturned(i) == \A p \in PassIdx : run[i].passes[p].state = "returned"

C10_TokenBudget ==
    \A i \in Ids :
        (AllReturned(i) /\ run[i].pc # "gather") =>
            IF SumTokens(run[i].passes) > settings.max_token_budget_per_job
              THEN /\ run[i].pc \in {"fail_budget", "done"}
                   /\ "action" \notin invoked[i]
                   /\ run[i].total_tokens = SumTokens(run[i].passes)
                   /\ (run[i].pc = "done" /\ Stored(i)) =>
                         /\ Rec(i).status = FAILED
                         /\ Rec(i).error_code = COST_LIMIT_EXCEEDED
                         /\ Rec(i).tokens_used = 0
              ELSE /\ run[i].pc # "fail_budget"
                   /\ run[i].pc \in {"set_analyzed", "action"} \/ "action" \in invoked[i]

\* the sum exceeded the budget and the job is FAILED; the witness of the other
\* branch is a sum equal to the budget that reached the action pass
C10_Witness ==
    \E i \in Ids :
        /\ AllReturned(i)
        /\ SumTokens(run[i].passes) = 60000
        /\ run[i].pc = "done" /\ Stored(i) /\ Rec(i).status = FAILED

C10_WitnessEqual ==
    \E i \in Ids :
        /\ AllReturned(i)
        /\ SumTokens(run[i].passes) = settings.max_token_budget_per_job
        /\ "action" \in invoked[i]


----------------------------------------------------------------------------
\* C11: when the fetch returned more reviews than max_review_count, the run
\* invokes none of the five analysis passes nor the aggregator and spends no
\* token, and once it has ended the record (while stored) is FAILED with
\* ERR_COST_LIMIT_EXCEEDED, tokens_used 0 and no result. A fetch of exactly
\* max_review_count reviews is not stopped by this check.
OverReviewCount(i) == run[i].reviews > settings.max_review_count

C11_ReviewCountPrecheck ==
    \A i \in Ids :
        /\ OverReviewCount(i) =>
              /\ invoked[i] = {"fetch"}
              /\ run[i].total_tokens = 0
              /\ run[i].pc \in {"set_reviews", "set_fetched", "set_analyzing",
                                "fail_review_count", "done"}
              /\ Stored(i) => Rec(i).result = Absent /\ Rec(i).tokens_used = 0
              /\ (run[i].pc = "done" /\ Stored(i)) =>
                    /\ Rec(i).status = FAILED
                    /\ Rec(i).error_code = COST_LIMIT_EXCEEDED
                    /\ Rec(i).error = "Review count (" \o ToString(run[i].reviews)
                                        \o ") exceeds limit ("
                                        \o ToString(settings.max_review_count) \o ")"
        /\ run[i].pc = "fail_review_count" => OverReviewCount(i)

C11_Witness ==
    \E i \in Ids : /\ OverReviewCount(i)
                   /\ run[i].pc = "done" /\ Stored(i)
                   /\ Rec(i).status = FAILED /\ Rec(i).error_code = COST_LIMIT_EXCEEDED

\* a fetch of exactly max_review_count reviews went on to the passes
C11_WitnessEqual ==
    \E i \in Ids : /\ run[i].reviews = settings.max_review_count
                   /\ "sentiment" \in invoked[i]

----------------------------------------------------------------------------
\* C12: when one of the five analysis passes raised a hard failure with a
\* message (one of the four independent passes, or the action pass), the
\* record (while stored) is, once the run has ended, FAILED with
\* ERR_AI_TIMEOUT.
ActionPassRaised(i) ==
    /\ "action" \in invoked[i]
    /\ "aggregate" \notin invoked[i]
    /\ Truthy(run[i].exc)

C12_PassFailureIsAiTimeout ==
    \A i \in Ids :
        ((SomePassRaised(i) \/ ActionPassRaised(i)) /\ run[i].pc = "done" /\ Stored(i))
            => Rec(i).status = FAILED /\ Rec(i).error_code = AI_TIMEOUT

----------------------------------------------------------------------------
\* C13: an exception that escapes a step of process_job (the fetch, a store
\* call, the action pass, the aggregation) never leaves process_job, and once
\* the run has ended the record (while stored) is FAILED with
\* ERR_SCHEMA_VALIDATION_FAILED and the exception's message.
C13_CatchAll ==
    \A i \in Ids :
        /\ run[i].pc # "raised"
        /\ (run[i].exc # None /\ run[i].pc = "done" /\ Stored(i)) =>
              /\ Rec(i).status = FAILED
              /\ Rec(i).error_code = SCHEMA_VALIDATION_FAILED
              /\ Rec(i).error = run[i].exc

----------------------------------------------------------------------------
\* C14: within one run, an independent pass has started only if the fetch has
\* returned reviews and set_reviews has returned (a record still in the store
\* then holds them); the action pass has been called only if the four
\* independent passes have all returned without raising; the aggregator has
\* been called only if the action pass has been called and gather has been
\* left; set_result is called, and a result is stored, only if the aggregator
\* has returned its result.
PassStarted(i) == \E p \in PassIdx : PassNames[p] \in invoked[i]

BeforeReviewsPersisted == {"idle", "get_job", "set_fetching", "fetch", "fail_fetch", "set_reviews"}

C14_PhaseOrdering ==
    \A i \in Ids :
        /\ PassStarted(i) =>
              /\ "fetch" \in invoked[i]
              /\ run[i].reviews > 0
              /\ run[i].pc \notin BeforeReviewsPersisted
              /\ Stored(i) => Rec(i).reviews = run[i].reviews
        /\ "action" \in invoked[i] =>
              /\ AllReturned(i)
              /\ run[i].pc \notin BeforeReviewsPersisted \cup {"start_gather", "gather"}
        /\ "aggregate" \in invoked[i] =>
              /\ "action" \in invoked[i]
              /\ AllReturned(i)
              /\ run[i].pc \in {"set_result", "except", "done", "raised"}
        /\ (run[i].pc = "set_result" \/ (Stored(i) /\ Rec(i).result # Absent)) =>
              /\ "aggregate" \in invoked[i]
              /\ run[i].result # Absent

\* a run went through every phase and stored its result
C14_Witness ==
    \E i \in Ids : /\ PassStarted(i) /\ "action" \in invoked[i] /\ "aggregate" \in invoked[i]
                   /\ Stored(i) /\ Rec(i).result # Absent

----------------------------------------------------------------------------
\* C20: a process_job run that found no record for its identifier has ended
\* without invoking the fetch, a pass or the aggregator, without any write to
\* the store (the only write to job:<id> is the one of create_job, and the
\* store still holds no record for the id), and without an exception.
FoundNoRecord(i) ==
    /\ run[i].pc \notin {"idle", "get_job"}
    /\ run[i].job = Absent
    /\ run[i].exc = None

C20_MissingJobNoOp ==
    \A i \in Ids :
        FoundNoRecord(i) =>
            /\ run[i].pc = "done"
            /\ invoked[i] = {}
            /\ Len(statusLog[i]) = 1
            /\ redis[_job_key(i)] = Absent /\ memory[_job_key(i)] = Absent

C20_Witness ==
    \E i \in Ids : FoundNoRecord(i) /\ run[i].pc = "done" /\ handler[1].pc = "done"

----------------------------------------------------------------------------
\* C18: when create_job(id, ..., hash) returns, get_job(id) yields a record
\* with status CREATED, progress 0, no error, no result, no reviews and
\* tokens_used 0, which is the record create_job returned; get_by_hash(hash)
\* yields that same record; and on the durable store the job:<id> entry and
\* the hash:<hash> entry both carry the expiry result_cache_ttl.
CreateJobPost(i) ==
    /\ api = Some([method |-> "create_job", arg |-> i, method_returned |-> get_job(i)])
    /\ get_job(i) # Absent
    /\ LET job == Val(get_job(i)) IN
        /\ job.analysis_id = i
        /\ job.status = CREATED /\ job.progress = 0
        /\ job.error = None /\ job.error_code = None
        /\ job.result = Absent /\ job.reviews = 0 /\ job.tokens_used = 0
        /\ get_by_hash(job.request_hash) = get_job(i)
        /\ redisUp =>
              /\ redis[_job_key(i)][2] = settings.result_cache_ttl
              /\ redis[_hash_key(job.request_hash)][2] = settings.result_cache_ttl

C18_CreateJob ==
    [][\A i \in Ids : (uuids < i /\ uuids' = i) => CreateJobPost(i)']_vars

\* create_job has just returned, on the durable store
C18_Witness ==
    /\ redisUp
    /\ api # Absent /\ Val(api).method = "create_job"
    /\ \E i \in Ids : uuids = i /\ CreateJobPost(i)

----------------------------------------------------------------------------
\* C19: update_status, set_reviews, set_result and fail_job called with an
\* identifier that has no record in the store (never created, or expired)
\* return None and leave the cache as it was, and no step other than
\* create_job gives a record to an identifier that had none. get_by_hash returns None when the hash entry is missing or names
\* a record that is no longer in the store.
UpdateMethods == {"update_status", "set_reviews", "set_result", "fail_job"}

C19_MissingRecord ==
    [][/\ \A i \in Ids :
            (~Stored(i) /\ uuids' = uuids) =>
                /\ ~Stored(i)'
                /\ memory'[_job_key(i)] = memory[_job_key(i)]
                /\ redis'[_job_key(i)] \in {redis[_job_key(i)], Absent}
                /\ (api' # api /\ Val(api').method \in UpdateMethods /\ Val(api').arg = i)
                      => /\ Val(api').method_returned = Absent
                         /\ redis' = redis /\ memory' = memory
       /\ (api' # api /\ Val(api').method = "get_by_hash") =>
            LET mapping == get_json(_hash_key(Val(api').arg)) IN
            (mapping = Absent \/ ~Stored(Val(mapping).analysis_id))
                => Val(api').method_returned = Absent
      ]_vars

\* an update method returned None for a record that had expired
C19_Witness ==
    /\ uuids > 0
    /\ api # Absent /\ Val(api).method \in UpdateMethods
    /\ Val(api).method_returned = Absent
    /\ ~Stored(Val(api).arg)

\* an update method returned None for an identifier that never had a record
C19_WitnessNeverCreated ==
    /\ uuids = 0
    /\ api # Absent /\ Val(api).method = "fail_job"
    /\ Val(api).method_returned = Absent

\* get_by_hash returned None for a hash entry whose record has expired
C19_WitnessDangling ==
    /\ api # Absent /\ Val(api).method = "get_by_hash"
    /\ Val(api).method_returned = Absent
    /\ get_json(_hash_key(Val(api).arg)) # Absent

----------------------------------------------------------------------------
\* C15: a submission whose get_by_hash finds a COMPLETED job is answered with
\* that job's identifier, status COMPLETED and cached = true, in a step that
\* draws no identifier, writes nothing to the store and schedules no run; a
\* cached answer is given in no other case. A submission that passed
\* validation and got no COMPLETED hit has drawn one fresh identifier, created
\* the record job:<id> with one CREATED write, and is answered with that
\* identifier, status CREATED and cached = false.
Answered(h) == handler[h].pc = "done" /\ Val(handler[h].response).http = 200
DedupHit(h) == Answered(h) /\ Val(handler[h].response).cached
CreatedJob(h) == Answered(h) /\ ~Val(handler[h].response).cached

CreatedWrites(i) == { k \in 1..Len(statusLog[i]) : statusLog[i][k][1] = CREATED }

C15_HitStep ==
    \A h \in Handlers :
        (handler[h].pc # "done" /\ DedupHit(h)') =>
            /\ handler[h].pc = "get_by_hash_job"
            /\ LET id == Val(handler[h].mapping).analysis_id IN
                /\ Stored(id) /\ Rec(id).status = COMPLETED
                /\ handler'[h].response = Some(AnalyzeResponse(id, COMPLETED, TRUE))
            /\ UNCHANGED <<redis, memory, run, uuids, statusLog>>

C15_MissStep ==
    \A h \in Handlers :
        (handler[h].pc = "get_by_hash_job" /\ handler'[h].pc # "get_by_hash_job"
            /\ Stored(Val(handler[h].mapping).analysis_id)
            /\ Rec(Val(handler[h].mapping).analysis_id).status = COMPLETED)
        => DedupHit(h)'

C15_Outcomes ==
    \A h \in Handlers :
        /\ DedupHit(h) => handler[h].analysis_id = 0
        /\ CreatedJob(h) =>
              LET id == handler[h].analysis_id IN
              /\ id \in Ids
              /\ \A g \in Handlers \ {h} : handler[g].analysis_id # id
              /\ CreatedWrites(id) = {1}
              /\ handler[h].response = Some(AnalyzeResponse(id, CREATED, FALSE))
        /\ (handler[h].pc = "done" /\ ~Answered(h)) => handler[h].analysis_id = 0

C15_DedupHit == [][C15_HitStep /\ C15_MissStep /\ C15_Outcomes']_vars

\* the second submission was answered from the first one's COMPLETED job
C15_Witness ==
    \E h \in Handlers, g \in Handlers :
        /\ DedupHit(h) /\ CreatedJob(g)
        /\ Val(handler[h].response).analysis_id = handler[g].analysis_id

\* the second submission found the first one's job FAILED and created its own
C15_WitnessMiss ==
    \E h \in Handlers, g \in Handlers :
        /\ CreatedJob(h) /\ CreatedJob(g) /\ h # g
        /\ handler[h].mapping # Absent
        /\ Val(handler[h].mapping).analysis_id = handler[g].analysis_id
        /\ FAILED \in { statusLog[handler[g].analysis_id][k][1] :
                          k \in 1..Len(statusLog[handler[g].analysis_id]) }

----------------------------------------------------------------------------
\* C16: two submissions with the same fingerprint, interleaved in any way, may
\* both create a job and both run it, and then the two jobs have different
\* identifiers and records of their own: the record under job:<id> is the job
\* with that identifier, and a step changes it only if it is a step of the
\* submission that drew the identifier, a step of the run of that identifier,
\* or the entry's expiry.
DrewId(h) == handler[h].analysis_id # 0

JobEntry(i) == <<redis[_job_key(i)], memory[_job_key(i)]>>

C16_SeparateRecords ==
    /\ \A h \in Handlers, g \in Handlers :
          (h # g /\ DrewId(h) /\ DrewId(g)) => handler[h].analysis_id # handler[g].analysis_id
    /\ \A i \in Ids :
          /\ Stored(i) => Rec(i).analysis_id = i
          /\ Stored(i) => \E h \in Handlers : /\ handler[h].analysis_id = i
                                               /\ Rec(i).request_hash = handler[h].request_hash

C16_OwnWrites ==
    \A i \in Ids :
        JobEntry(i)' # JobEntry(i) =>
            \/ run'[i] # run[i]
            \/ \E h \in Handlers : handler[h].analysis_id = i /\ handler'[h] # handler[h]
            \/ redis'[_job_key(i)] = Absent /\ memory'[_job_key(i)] = memory[_job_key(i)]

C16_ConcurrentSubmissions == [][C16_SeparateRecords' /\ C16_OwnWrites]_vars

\* both submissions of one fingerprint created a job, both jobs ran to
\* COMPLETED, and both records are in the store
C16_Witness ==
    \E h \in Handlers, g \in Handlers :
        /\ h # g /\ CreatedJob(h) /\ CreatedJob(g)
        /\ handler[h].request_hash = handler[g].request_hash
        /\ \A i \in {handler[h].analysis_id, handler[g].analysis_id} :
              run[i].pc = "done" /\ Stored(i) /\ Rec(i).status = COMPLETED

----------------------------------------------------------------------------
\* C17: process_job is scheduled for an identifier in exactly the step in
\* which the submission that created job:<id> is answered, and from the idle
\* state only, so once per job; a submission answered from the cache or
\* rejected has drawn no identifier and scheduled nothing; the scheduled runs
\* are as many as the submissions answered with a new job, one per identifier.
Scheduled(i) == run[i].pc # "idle"
Rejected(h) == handler[h].pc = "done" /\ Val(handler[h].response).http = 400

C17_ScheduleStep ==
    \A i \in Ids :
        (run'[i].pc = "get_job" /\ run[i].pc # "get_job") =>
            /\ run[i].pc = "idle"
            /\ \E h \in Handlers : /\ handler[h].pc = "create_job_hash"
                                    /\ handler[h].analysis_id = i
                                    /\ CreatedJob(h)'
                                    /\ \A g \in Handlers \ {h} : handler'[g] = handler[g]

C17_ScheduledOnce ==
    /\ \A h \in Handlers :
          /\ CreatedJob(h) => Scheduled(handler[h].analysis_id)
          /\ (DedupHit(h) \/ Rejected(h)) => handler[h].analysis_id = 0
    /\ \A i \in Ids :
          Scheduled(i) =>
              Cardinality({ h \in Handlers : CreatedJob(h) /\ handler[h].analysis_id = i }) = 1
    /\ Cardinality({ i \in Ids : Scheduled(i) })
            = Cardinality({ h \in Handlers : CreatedJob(h) })

C17_WitnessRejected ==
    /\ \E h \in Handlers, g \in Handlers : CreatedJob(h) /\ Rejected(g)
    /\ Cardinality({ i \in Ids : Scheduled(i) }) = 1

----------------------------------------------------------------------------
\* C21: two requests with the same (app_url, review_limit, locale,
\* analysis_version) have the same hash, whatever their other fields, and two
\* requests that differ in one of the four fields have different hashes.
HashCalled == api # Absent /\ Val(api).method = "generate_request_hash"

C21_SameFieldsSameHash ==
    HashCalled =>
        (HashFields(Val(api).arg[1]) = HashFields(Val(api).arg[2])
            => Val(api).method_returned[1] = Val(api).method_returned[2])

C21_ContentHash ==
    HashCalled =>
        (HashFields(Val(api).arg[1]) = HashFields(Val(api).arg[2])
            <=> Val(api).method_returned[1] = Val(api).method_returned[2])

----------------------------------------------------------------------------
\* C22: for every sentiment pass output, missing keys and an all-zero
\* breakdown included, the breakdown the aggregator builds sums to 100 within
\* 0.1, its positive and neutral are the inputs scaled by 100 / total and
\* rounded to one decimal, and its negative is 100 - positive - neutral.
SentimentBuilt == api # Absent /\ Val(api).method = "_build_sentiment_breakdown"

Given(v) == IF v = Missing THEN 333 ELSE v

C22_SentimentNormalized ==
    SentimentBuilt =>
        LET in == Val(api).arg
            out == Val(api).method_returned
            total == Given(in.positive) + Given(in.neutral) + Given(in.negative)
        IN  /\ out.positive + out.neutral + out.negative \in 999..1001
            /\ out.negative = 1000 - out.positive - out.neutral
            /\ total > 0 => /\ out.positive \in RoundFloat(Given(in.positive) * 1000, total)
                            /\ out.neutral \in RoundFloat(Given(in.neutral) * 1000, total)

\* the same, for the outputs whose three values are not all zero
C22_NormalizedWhenPositiveTotal ==
    SentimentBuilt =>
        LET in == Val(api).arg
            out == Val(api).method_returned
            total == Given(in.positive) + Given(in.neutral) + Given(in.negative)
        IN  total > 0 =>
              /\ out.positive + out.neutral + out.negative = 1000
              /\ out.positive \in RoundFloat(Given(in.positive) * 1000, total)
              /\ out.neutral \in RoundFloat(Given(in.neutral) * 1000, total)

----------------------------------------------------------------------------
\* C23: whenever the aggregator returns an InsightResult, each of its lists
\* is as long as the pass output cut to 10 items (5 for monetization_risks),
\* its k-th entry is built from the k-th item of the pass output, and
\* reviews_analyzed is the number of reviews handed to the aggregator.
Aggregated ==
    /\ api # Absent /\ Val(api).method = "aggregate"
    /\ ~AggregateRaised(Val(api).method_returned)

MinOf(a, b) == IF a < b THEN a ELSE b

C23_ListPrefixes ==
    Aggregated =>
        LET items == Val(api).arg.items
            risks == IF Val(api).arg.monetization = Absent THEN <<>> ELSE items
            out == Val(api).method_returned
            Name(k, default) == Get(items[k].name, NoLabel, default)
        IN  /\ Len(out.top_issues.value) = MinOf(Len(items), 10)
            /\ Len(out.feature_requests.value) = MinOf(Len(items), 10)
            /\ Len(out.monetization_risks.value) = MinOf(Len(risks), 5)
            /\ Len(out.recommended_actions.value) = MinOf(Len(items), 10)
            /\ \A k \in 1..Len(out.top_issues.value) :
                  /\ out.top_issues.value[k].issue = Name(k, "Unknown issue")
                  /\ out.top_issues.value[k].frequency = Get(items[k].count, Missing, 1)
            /\ \A k \in 1..Len(out.feature_requests.value) :
                  /\ out.feature_requests.value[k].feature = Name(k, "Unknown feature")
                  /\ out.feature_requests.value[k].count = Get(items[k].count, Missing, 1)
            /\ \A k \in 1..Len(out.monetization_risks.value) :
                  out.monetization_risks.value[k].risk = Name(k, "Unknown risk")
            /\ \A k \in 1..Len(out.recommended_actions.value) :
                  out.recommended_actions.value[k].action = Name(k, "Unknown action")
            /\ out.reviews_analyzed = Val(api).arg.reviews

\* a pass output longer than ten items was aggregated
C23_Witness ==
    /\ Aggregated
    /\ Len(Val(api).arg.items) > 10
    /\ Val(api).arg.monetization # Absent
    /\ Len(Val(api).method_returned.top_issues.value) = 10
    /\ Len(Val(api).method_returned.monetization_risks.value) = 5

\* C23, in process_job: the result stored for a job reports as
\* reviews_analyzed the number of reviews the run fetched and stored.
C23_ReviewsAnalyzed ==
    \A i \in Ids :
        (Stored(i) /\ Rec(i).result # Absent) =>
            /\ Val(Rec(i).result).reviews_analyzed = run[i].reviews
            /\ Val(Rec(i).result).reviews_analyzed = Rec(i).reviews

----------------------------------------------------------------------------
\* C24: in every InsightResult, an action whose priority is critical (in any
\* case) has priority high; an issue severity, risk confidence or action
\* priority that is, lower-cased and after the critical fold, none of low,
\* medium, high (a missing one included) is medium; a valid label is reported
\* as it is (lower-cased); so every label is one of low, medium, high.
Reported(label) == Lower(Get(label, NoLabel, "medium"))

C24_LabelCoercion ==
    Aggregated =>
        LET items == Val(api).arg.items
            out == Val(api).method_returned
        IN  /\ \A k \in 1..Len(out.recommended_actions.value) :
                  LET priority == out.recommended_actions.value[k].priority IN
                  /\ Reported(items[k].label) = "critical" => priority = "high"
                  /\ Reported(items[k].label) \in SeverityValues
                        => priority = Reported(items[k].label)
                  /\ Reported(items[k].label) \notin SeverityValues \cup {"critical"}
                        => priority = "medium"
                  /\ priority \in SeverityValues
            /\ \A k \in 1..Len(out.top_issues.value) :
                  LET severity == out.top_issues.value[k].severity IN
                  /\ Reported(items[k].label) \in SeverityValues
                        => severity = Reported(items[k].label)
                  /\ Reported(items[k].label) \notin SeverityValues => severity = "medium"
                  /\ severity \in SeverityValues
            /\ \A k \in 1..Len(out.monetization_risks.value) :
                  LET confidence == out.monetization_risks.value[k].confidence IN
                  /\ Reported(items[k].label) \in SeverityValues
                        => confidence = Reported(items[k].label)
                  /\ Reported(items[k].label) \notin SeverityValues => confidence = "medium"
                  /\ confidence \in SeverityValues

\* a critical action was reported high, next to an action with an unknown
\* priority reported medium
C24_Witness ==
    /\ Aggregated
    /\ \E k \in 1..Len(Val(api).method_returned.recommended_actions.value) :
          /\ Val(api).arg.items[k].label = "critical"
          /\ Val(api).method_returned.recommended_actions.value[k].priority = "high"
    /\ \E k \in 1..Len(Val(api).method_returned.recommended_actions.value) :
          /\ Val(api).arg.items[k].label = "urgent"
          /\ Val(api).method_returned.recommended_actions.value[k].priority = "medium"

----------------------------------------------------------------------------
\* C25: the issue pass merges the items whose names are equal after
\* lower-casing and trimming into one item, whose frequency is the sum of the
\* duplicates' frequencies and whose severity is the highest of their
\* severities under low < medium < high, whatever the order of the batches.
IssuesAnalyzed == api # Absent /\ Val(api).method = "IssuePipeline.analyze"

\* every batch was answered with the expected object
WellFormed(responses) ==
    \A k \in 1..Len(responses) :
        /\ responses[k].kind = "json"
        /\ responses[k].parsed.type = "dict"
        /\ "issues" \in responses[k].parsed.keys
        /\ responses[k].parsed.issues # Absent

RECURSIVE Reported_issues(_)
Reported_issues(responses) ==
    IF responses = <<>> THEN <<>>
    ELSE Val(Head(responses).parsed.issues) \o Reported_issues(Tail(responses))

RECURSIVE SumFrequency(_, _)
SumFrequency(items, key) ==
    IF items = <<>> THEN 0
    ELSE (IF LowerStrip(Get(Head(items).name, NoLabel, "")) = key
            THEN Get(Head(items).count, Missing, 1) ELSE 0)
         + SumFrequency(Tail(items), key)

\* the severities reported for a name, and the highest of a set of them
SeveritiesOf(items, key) ==
    { items[k].label : k \in { j \in 1..Len(items) :
                                  LowerStrip(Get(items[j].name, NoLabel, "")) = key } }

MaxSeverity(S) == CHOOSE s \in S : \A t \in S : _severity_level(t) <= _severity_level(s)

NamesOf(items) ==
    { LowerStrip(Get(items[k].name, NoLabel, "")) : k \in 1..Len(items) } \ {""}

\* the merged items as a set of <<name, frequency, severity>>
MergedSet(merged) ==
    { <<LowerStrip(merged[k].issue), merged[k].frequency, merged[k].severity>> :
        k \in 1..Len(merged) }

IssueMergeHolds ==
    LET responses == Val(api).arg
        items == Reported_issues(responses)
        merged == Val(api).method_returned.value
    IN  /\ Val(api).method_returned.raised = None
        /\ Len(merged) = Cardinality(NamesOf(items))
        /\ \A k \in 1..Len(merged) :
              /\ LowerStrip(merged[k].issue) \in NamesOf(items)
              /\ merged[k].frequency = SumFrequency(items, LowerStrip(merged[k].issue))
              /\ SeveritiesOf(items, LowerStrip(merged[k].issue)) \subseteq SeverityValues
                    => merged[k].severity =
                         MaxSeverity(SeveritiesOf(items, LowerStrip(merged[k].issue)))
        /\ \A p \in Permutations(1..Len(responses)) :
              MergedSet(IssuePipeline_analyze([k \in 1..Len(responses) |-> responses[p[k]]]).value)
                = MergedSet(merged)

C25_IssueMerge ==
    (IssuesAnalyzed /\ WellFormed(Val(api).arg)) => IssueMergeHolds

\* the same, for answers in which every item carries a severity
AllLabelled(responses) ==
    \A k \in 1..Len(Reported_issues(responses)) :
        Reported_issues(responses)[k].label \in SeverityValues

C25_MergeWhenLabelled ==
    (IssuesAnalyzed /\ WellFormed(Val(api).arg) /\ AllLabelled(Val(api).arg))
        => IssueMergeHolds

\* 5/medium and 3/high of one name, spelled differently, gave 8/high
C25_WitnessLabelled ==
    /\ IssuesAnalyzed
    /\ Len(Val(api).arg) = 2
    /\ WellFormed(Val(api).arg)
    /\ Reported_issues(Val(api).arg)
         = <<IssueItem("login fails", 5, "medium", "bug"),
             IssueItem(" Login Fails ", 3, "high", "bug")>>
    /\ MergedSet(Val(api).method_returned.value) = {<<"login fails", 8, "high">>}

----------------------------------------------------------------------------
\* C26: whatever the number of batches, one included, the overall_sentiment
\* the sentiment pass returns is the one its returned percentages give:
\* positive when positive is more than ten points above negative, negative
\* when negative is more than ten points above positive, neutral otherwise.
SentimentAnalyzed ==
    /\ api # Absent
    /\ Val(api).method = "SentimentPipeline.analyze"
    /\ Val(api).method_returned.raised = None
    /\ Val(api).method_returned.value.type = "dict"
    /\ {"overall_sentiment", "sentiment_breakdown"} \subseteq Val(api).method_returned.value.keys

LabelDerived ==
    LET returned == Val(api).method_returned.value
    IN  returned.overall_sentiment
          = OverallSentiment(BreakdownGet(returned, "positive"),
                             BreakdownGet(returned, "negative"), 1)

C26_LabelFromPercentages == SentimentAnalyzed => LabelDerived

\* the same for two batches or more, where the percentages are merged
C26_LabelWhenMerged ==
    (SentimentAnalyzed /\ Len(Val(api).arg) >= 2) => LabelDerived

\* two batches, one clearly positive and one with a lead of just over ten
\* points, merged to positive
C26_WitnessMerged ==
    /\ SentimentAnalyzed
    /\ Len(Val(api).arg) = 2
    /\ \A k \in 1..2 : Val(api).arg[k].kind = "json" /\ Val(api).arg[k].parsed.type = "dict"
    /\ Val(api).arg[1].parsed.sentiment_breakdown = Some(Breakdown(450, 200, 350))
    /\ Val(api).arg[2].parsed.sentiment_breakdown = Some(Breakdown(452, 198, 350))
    /\ Val(api).arg[1].parsed.overall_sentiment = "negative"
    /\ Val(api).method_returned.value.overall_sentiment = "positive"

----------------------------------------------------------------------------
\* C27: when the answers to the batches of the issue pass hold no failed
\* call, the pass does not raise, whatever the format of the answers, and a
\* batch whose answer is not the expected object adds nothing to the result;
\* when the call for a batch fails, the pass raises.
HardFailure(responses) == \E k \in 1..Len(responses) : responses[k].kind = "error"

\* the answers in the expected format, in order
RECURSIVE ExpectedOnly(_)
ExpectedOnly(responses) ==
    IF responses = <<>> THEN <<>>
    ELSE (IF WellFormed(<<Head(responses)>>) THEN <<Head(responses)>> ELSE <<>>)
         \o ExpectedOnly(Tail(responses))

C27_GracefulDegradation ==
    IssuesAnalyzed =>
        /\ HardFailure(Val(api).arg) => Val(api).method_returned.raised # None
        /\ ~HardFailure(Val(api).arg) =>
              Val(api).method_returned = IssuePipeline_analyze(ExpectedOnly(Val(api).arg))

\* the same, for answers that are unparseable text or objects without the
\* "issues" key
Unshaped(response) ==
    \/ response.kind = "json" /\ response.parsed.type # "dict"
    \/ response.kind = "json" /\ response.parsed.type = "dict"
         /\ "issues" \in response.parsed.keys /\ response.parsed.issues = Absent

C27_AbsorbedWhenObject ==
    (IssuesAnalyzed /\ \A k \in 1..Len(Val(api).arg) : ~Unshaped(Val(api).arg[k])) =>
        /\ HardFailure(Val(api).arg) => Val(api).method_returned.raised # None
        /\ ~HardFailure(Val(api).arg) =>
              Val(api).method_returned = IssuePipeline_analyze(ExpectedOnly(Val(api).arg))

\* an unparseable answer next to a good one: the good one's issue is returned
C27_WitnessAbsorbed ==
    /\ IssuesAnalyzed
    /\ Len(Val(api).arg) = 2
    /\ Val(api).arg[1] = Text
    /\ WellFormed(<<Val(api).arg[2]>>)
    /\ Val(api).method_returned.raised = None
    /\ Len(Val(api).method_returned.value) = 1

----------------------------------------------------------------------------
\* C28: the record of a job that is COMPLETED has a tokens_used that is not
\* above max_token_budget_per_job.
C28_BudgetCap ==
    \A i \in Ids :
        (Stored(i) /\ Rec(i).status = COMPLETED) =>
            Rec(i).tokens_used <= settings.max_token_budget_per_job

\* what the checkpoint does keep: the cost of the four independent passes of
\* a COMPLETED job is not above the budget, and tokens_used is that cost plus
\* the cost of the action pass
C28_CapBeforeActionPass ==
    \A i \in Ids :
        (Stored(i) /\ Rec(i).status = COMPLETED /\ run[i].pc = "done"
           /\ run[i].job # Absent) =>
            /\ SumTokens(run[i].passes) <= settings.max_token_budget_per_job
            /\ Rec(i).tokens_used = run[i].total_tokens
            /\ \E t \in ActionTokenCosts :
                  Rec(i).tokens_used = SumTokens(run[i].passes) + t

\* a COMPLETED job whose four passes cost the whole budget
C28_Witness ==
    \E i \in Ids :
        /\ Stored(i) /\ Rec(i).status = COMPLETED
        /\ SumTokens(run[i].passes) = settings.max_token_budget_per_job

----------------------------------------------------------------------------
\* C29: a submission whose locale is not supported, or whose URL holds no app
\* id, is answered 400 ERR_INVALID_INPUT by a step that writes nothing to
\* either store, draws no identifier and schedules no run; no job record and no
\* hash index entry exists for it, and no stored job record carries
\* ERR_INVALID_INPUT.
InvalidRequest(request) ==
    \/ Truthy(request.options.locale) /\ request.options.locale \notin locales_list
    \/ extract_app_id(request.app_url, request.platform) = None

C29_RejectStep ==
    \A h \in Handlers :
        (handler[h].pc = "idle" /\ handler'[h].pc # "idle") =>
            IF InvalidRequest(Val(handler'[h].request))
              THEN /\ Rejected(h)'
                   /\ Val(handler'[h].response).error_code = INVALID_INPUT
                   /\ handler'[h].analysis_id = 0
                   /\ redis' = redis /\ memory' = memory
                   /\ run' = run /\ uuids' = uuids
              ELSE ~Rejected(h)'

C29_NothingStored ==
    /\ \A h \in Handlers :
          Rejected(h) =>
              LET request_hash == generate_request_hash(Val(handler[h].request)) IN
              /\ InvalidRequest(Val(handler[h].request))
              /\ redis[_hash_key(request_hash)] = Absent
              /\ memory[_hash_key(request_hash)] = Absent
              /\ \A job \in StoredJobs : job.request_hash # request_hash
    /\ \A job \in StoredJobs : job.error_code # INVALID_INPUT

C29_InvalidRejected == [][C29_RejectStep /\ C29_NothingStored']_vars

\* a submission with an unsupported locale was rejected, and one whose URL
\* holds no app id was
C29_Witness ==
    \E h \in Handlers :
        /\ Rejected(h)
        /\ Val(handler[h].request).options.locale = "fr-FR"
        /\ extract_app_id(Val(handler[h].request).app_url,
                          Val(handler[h].request).platform) # None

C29_WitnessNoAppId ==
    \E h \in Handlers :
        /\ Rejected(h)
        /\ Val(handler[h].request).options.locale = None
        /\ extract_app_id(Val(handler[h].request).app_url,
                          Val(handler[h].request).platform) = None

----------------------------------------------------------------------------
\* C30: a step of the run of one job leaves the record of every other job as
\* it is, in both backends, and when a run has ended with its record in the
\* store, the record's status, progress, reviews, result, error and
\* tokens_used are those the run's own fetch and passes give, whatever the
\* other job's run did in between.
C30_OtherJobUntouched ==
    \A i \in Ids :
        (run[i].pc # "idle" /\ run'[i] # run[i]) =>
            \A j \in Ids \ {i} : JobEntry(j)' = JobEntry(j)

\* the run met none of the failures past the fetch
Unhindered(i) ==
    /\ run[i].exc = None
    /\ run[i].reviews <= settings.max_review_count
    /\ \A p \in PassIdx : run[i].passes[p].state = "returned"
    /\ SumTokens(run[i].passes) <= settings.max_token_budget_per_job

\* the record a run leaves when it runs alone
SoloRecord(i) ==
    IF run[i].reviews = 0
      THEN [Val(run[i].job) EXCEPT !.status = FAILED, !.progress = 5,
                                   !.error = "Failed to fetch reviews from app store",
                                   !.error_code = REVIEW_FETCH_FAILED]
    ELSE [Val(run[i].job) EXCEPT !.status = COMPLETED, !.progress = 100,
                                 !.reviews = run[i].reviews,
                                 !.result = run[i].result,
                                 !.tokens_used = run[i].total_tokens]

C30_SoloOutcome ==
    \A i \in Ids :
        (run[i].pc = "done" /\ run[i].job # Absent /\ Stored(i)
           /\ run[i].exc = None /\ (run[i].reviews = 0 \/ Unhindered(i)))
            => Rec(i) = SoloRecord(i)

C30_WitnessConcurrent ==
    \E i \in Ids, j \in Ids :
        /\ i # j
        /\ run[i].pc \notin {"idle", "get_job", "done"}
        /\ run[j].pc \notin {"idle", "get_job", "done"}

----------------------------------------------------------------------------
\* C31: once one of the four independent passes has raised, the join can end
\* at once, whether or not the other passes have ended.
C31_FailFast ==
    \A i \in Ids :
        (run[i].pc = "gather" /\ SomePassRaised(i)) => ENABLED GatherJoin(i)

\* what the join does: it ends only when no pass is running any more, so the
\* job is recorded FAILED after all four passes have ended
C31_JoinWaitsForAll ==
    \A i \in Ids :
        /\ (run[i].pc = "gather" /\ \E p \in PassIdx : run[i].passes[p].state = "running")
              => ~ENABLED GatherJoin(i)
        /\ run[i].pc \in {"fail_pipeline", "done"} =>
              \A p \in PassIdx : run[i].passes[p].state # "running"

\* a pass has raised while another one is still running, and the run waits
C31_WitnessWaiting ==
    \E i \in Ids :
        /\ run[i].pc = "gather"
        /\ run[i].passes[1].state = "raised"
        /\ run[i].passes[4].state = "running"

----------------------------------------------------------------------------
\* C32: the record of a job whose fetch returned more reviews than
\* max_review_count never shows status ANALYZING nor progress 25.
C32_NeverAnalyzing ==
    \A i \in Ids :
        (OverReviewCount(i) /\ Stored(i)) =>
            /\ Rec(i).status # ANALYZING_REVIEWS
            /\ Rec(i).progress # 25

\* what the order of the code gives: the check comes after the fetch phase
\* (the reviews are stored) and after ANALYZING/25 is written, and the record
\* of a rejected job never goes past progress 25
C32_PrecheckAfterAnalyzing ==
    \A i \in Ids :
        /\ run[i].pc = "fail_review_count" =>
              /\ OverReviewCount(i)
              /\ "fetch" \in invoked[i]
              /\ Stored(i) => /\ Rec(i).status = ANALYZING_REVIEWS /\ Rec(i).progress = 25
                              /\ Rec(i).reviews = run[i].reviews
                              /\ statusLog[i][Len(statusLog[i])] = <<ANALYZING_REVIEWS, 25>>
        /\ (OverReviewCount(i) /\ Stored(i)) => Rec(i).progress <= 25

\* the precheck is about to reject a job whose record shows ANALYZING, 25
C32_WitnessAnalyzing ==
    \E i \in Ids :
        /\ run[i].pc = "fail_review_count"
        /\ Stored(i) /\ Rec(i).status = ANALYZING_REVIEWS /\ Rec(i).progress = 25

----------------------------------------------------------------------------
\* C33: once the record of a job is absent during its run, it stays absent:
\* no later step re-creates it, and no FAILED state is recorded for the job.
Running(i) == run[i].pc \notin {"idle", "done"}

C33_StaysAbsent ==
    [][\A i \in Ids : (Running(i) /\ ~Stored(i)) => ~Stored(i)']_vars

\* what holds: a call whose read finds no record writes nothing, and a record
\* comes back only through the write of a call whose read came before the
\* expiry
C33_NoOpOnAbsentRead ==
    [][\A i \in Ids :
          (Running(i) /\ ~Stored(i) /\ Stored(i)') =>
              /\ run[i].rmw # Absent
              /\ run'[i].rmw = Absent
              /\ redis[_job_key(i)] = Absent
              /\ redis'[_job_key(i)][2] = settings.result_cache_ttl]_vars

\* the record expired between the read and the write of fail_job, and the
\* run ended with the record back in the store as FAILED
C33_WitnessRecreated ==
    \E i \in Ids :
        /\ run[i].pc = "done" /\ run[i].job # Absent
        /\ Stored(i) /\ Rec(i).status = FAILED
        /\ Len(statusLog[i]) >= 1
        /\ \E h \in Handlers : handler[h].analysis_id = i /\ handler[h].pc = "done"

----------------------------------------------------------------------------
\* C34: the record of a COMPLETED job holds in tokens_used the costs of the
\* four independent passes plus the cost of the action pass; the record of a
\* FAILED job holds tokens_used 0.
C34_TokenSum ==
    \A i \in Ids :
        /\ run[i].pc \in {"set_analyzed", "action"} =>
              run[i].total_tokens = SumTokens(run[i].passes)
        /\ (Stored(i) /\ Rec(i).status = COMPLETED) =>
              /\ Rec(i).tokens_used = run[i].total_tokens
              /\ Rec(i).tokens_used - SumTokens(run[i].passes) \in ActionTokenCosts
        /\ (Stored(i) /\ Rec(i).status = FAILED) => Rec(i).tokens_used = 0

\* the action pass adds its own cost to the cost of the four passes
C34_ActionStep ==
    \A i \in Ids :
        (run[i].pc = "action" /\ run'[i].pc = "set_action_done") =>
            /\ run'[i].total_tokens - run[i].total_tokens \in ActionTokenCosts
            /\ run'[i].passes = run[i].passes

C34_TokensUsed == [][C34_ActionStep /\ C34_TokenSum']_vars

\* a COMPLETED job whose action pass cost 10000, next to the four passes' 40000
C34_Witness ==
    \E i \in Ids :
        /\ Stored(i) /\ Rec(i).status = COMPLETED
        /\ SumTokens(run[i].passes) = 40000
        /\ Rec(i).tokens_used = 50000

\* a job FAILED by the token budget, after its passes cost 60000
C34_WitnessFailed ==
    \E i \in Ids :
        /\ Stored(i) /\ Rec(i).status = FAILED
        /\ Rec(i).error_code = COST_LIMIT_EXCEEDED
        /\ SumTokens(run[i].passes) = 60000
        /\ Rec(i).tokens_used = 0

----------------------------------------------------------------------------
\* C35: when a job of some fingerprint is COMPLETED and in the store, a
\* submission of the same fingerprint whose lookup starts then is served from
\* a COMPLETED job: its lookup finds an index entry naming one, so it creates
\* no new job beside the COMPLETED one.
CompletedJob(i) == Stored(i) /\ Rec(i).status = COMPLETED

NewJobBeside(h, i) ==
    /\ CreatedJob(h)
    /\ handler[h].analysis_id # i
    /\ CompletedJob(i)
    /\ Rec(i).request_hash = handler[h].request_hash

\* the lookup of a submission that starts while a COMPLETED job of its
\* fingerprint is stored finds an index entry that names a COMPLETED job
C35_ServedStep ==
    \A h \in Handlers : \A i \in Ids :
        (/\ handler[h].pc = "get_by_hash"
         /\ handler'[h].pc # "get_by_hash"
         /\ CompletedJob(i)
         /\ Rec(i).request_hash = handler[h].request_hash)
        => /\ handler'[h].pc = "get_by_hash_job"
           /\ CompletedJob(Val(handler'[h].mapping).analysis_id)

C35_AtMostOneEquivalentJob == [][C35_ServedStep]_vars

\* a second job of the fingerprint exists beside a COMPLETED one that is
\* still in the store
C35_WitnessSecondJob ==
    \E h \in Handlers, i \in Ids : NewJobBeside(h, i)

\* a COMPLETED job in the store whose fingerprint has no index entry any
\* more, before the other client submits
C35_WitnessIndexExpired ==
    \E h \in Handlers, i \in Ids :
        /\ handler[h].pc = "idle"
        /\ CompletedJob(i)
        /\ get_json(_hash_key(Rec(i).request_hash)) = Absent

\* a COMPLETED job in the store whose fingerprint's index entry names another
\* job, which is FAILED
C35_WitnessIndexNamesFailed ==
    \E i \in Ids, j \in Ids :
        /\ i # j
        /\ CompletedJob(i)
        /\ get_json(_hash_key(Rec(i).request_hash)) # Absent
        /\ Val(get_json(_hash_key(Rec(i).request_hash))).analysis_id = j
        /\ Stored(j) /\ Rec(j).status = FAILED

----------------------------------------------------------------------------
\* C36: the entry hash:<h> is written by the hash write of create_job only,
\* which sets it to the identifier of the job it creates whether or not an
\* entry exists; any other change of the entry is its expiry. So an entry that
\* exists names the job of fingerprint h whose create_job ended last.
FinishesCreateJob(h) == handler[h].pc = "create_job_hash" /\ handler'[h].pc = "done"

C36_IndexStep ==
    /\ \A h \in Handlers :
          FinishesCreateJob(h) =>
              get_json(_hash_key(handler[h].request_hash))'
                  = Some([analysis_id |-> handler[h].analysis_id])
    /\ \A k \in HashKeys :
          (redis'[k] # redis[k] \/ memory'[k] # memory[k]) =>
              \/ \E h \in Handlers : /\ FinishesCreateJob(h)
                                      /\ k = _hash_key(handler[h].request_hash)
              \/ redis'[k] = Absent /\ memory'[k] = memory[k]

C36_IndexNamesJob ==
    \A k \in HashKeys :
        get_json(k) # Absent =>
            \E h \in Handlers :
                /\ CreatedJob(h)
                /\ k = _hash_key(handler[h].request_hash)
                /\ Val(get_json(k)).analysis_id = handler[h].analysis_id

C36_WitnessOverlap ==
    \E h \in Handlers, g \in Handlers :
        /\ CreatedJob(h) /\ CreatedJob(g)
        /\ handler[h].analysis_id < handler[g].analysis_id
        /\ handler[h].request_hash = handler[g].request_hash
        /\ get_json(_hash_key(handler[h].request_hash))
             = Some([analysis_id |-> handler[h].analysis_id])

----------------------------------------------------------------------------
\* C37: when the run of a job has ended after passes raised, the recorded
\* error is the message of the raised pass that comes first in the order
\* sentiment, issues, features, monetization; it is a function of which
\* passes raised, so the order in which the passes ended has no part in it.
RaisedPasses(i) == { p \in PassIdx : run[i].passes[p].state = "raised" }

LowestRaised(i) == CHOOSE p \in RaisedPasses(i) : \A q \in RaisedPasses(i) : p <= q

C37_LowestPositionError ==
    \A i \in Ids :
        /\ PassNames = <<"sentiment", "issues", "features", "monetization">>
        /\ (RaisedPasses(i) # {} /\ run[i].pc = "done" /\ Stored(i)) =>
              /\ Rec(i).error = "AI pipeline failed: " \o PassError(LowestRaised(i))
              /\ Rec(i).error_code = AI_TIMEOUT

\* the passes end in any order: a pass of a higher position can end, raising,
\* while one of a lower position, which raises later, is still running
C37_AnyFinishingOrder ==
    \A i \in Ids : \A p \in PassIdx :
        (run[i].pc = "gather" /\ run[i].passes[p].state = "running")
            => ENABLED PassReturns(i, p)

\* the issues and the monetization pass raised, sentiment returned, and the
\* recorded error is that of the issues pass
C37_Witness ==
    \E i \in Ids :
        /\ RaisedPasses(i) = {2, 4}
        /\ run[i].pc = "done" /\ Stored(i)
        /\ Rec(i).error = "AI pipeline failed: issues: request timed out"

\* the monetization pass has raised while the issues pass, which raises
\* later, is still running
C37_WitnessLaterFirst ==
    \E i \in Ids :
        /\ run[i].pc = "gather"
        /\ run[i].passes[4].state = "raised"
        /\ run[i].passes[2].state = "running"

----------------------------------------------------------------------------
\* C38: a job record that get_job finds stays found by get_job after every
\* step, the steps that change the durable store's reachability included,
\* until the step in which its key expires.
Expires(k) == redis[k] # Absent /\ redis'[k] = Absent

C38_StaysVisible ==
    [][\A i \in Ids : (Stored(i) /\ ~Stored(i)') => Expires(_job_key(i))]_vars

\* what holds: while the reachability does not change, a record stays found
\* until its key expires
C38_VisibleOnOneBackend ==
    [][\A i \in Ids :
          (Stored(i) /\ ~Stored(i)' /\ redisUp' = redisUp) => Expires(_job_key(i))]_vars

\* the record was created in the in-process fallback, the durable store is
\* reachable again, and the run finds no record
C38_WitnessHidden ==
    \E i \in Ids :
        /\ memory[_job_key(i)] # Absent
        /\ redis[_job_key(i)] = Absent
        /\ redisUp
        /\ ~Stored(i)
        /\ run[i].pc = "done"

\* the record lives in both backends with different contents
C38_WitnessSplit ==
    \E i \in Ids :
        /\ memory[_job_key(i)] # Absent
        /\ redis[_job_key(i)] # Absent
        /\ Val(memory[_job_key(i)]).status # redis[_job_key(i)][1].status

----------------------------------------------------------------------------
\* C39: for every sentiment breakdown whose inputs are not negative, each of
\* the three percentages the aggregator builds lies in 0..100, so building
\* the SentimentBreakdown does not raise.
NonNegative(in) == \A f \in {"positive", "neutral", "negative"} : Given(in[f]) >= 0

C39_PercentagesInRange ==
    (SentimentBuilt /\ NonNegative(Val(api).arg)) =>
        LET out == Val(api).method_returned
        IN  /\ out.positive \in 0..1000
            /\ out.neutral \in 0..1000
            /\ out.negative \in 0..1000
            /\ out.raised = None

\* what holds: positive and neutral lie in 0..100 and negative is not below
\* -0.1; negative is below 0 only when the input's negative is 0 and both
\* other quotients lie exactly between two tenths
C39_RangeButForTies ==
    (SentimentBuilt /\ NonNegative(Val(api).arg)) =>
        LET in == Val(api).arg
            out == Val(api).method_returned
            total == Given(in.positive) + Given(in.neutral) + Given(in.negative)
        IN  /\ out.positive \in 0..1000
            /\ out.neutral \in 0..1000
            /\ out.negative \in -1..1000
            /\ out.negative < 0 =>
                  /\ Given(in.negative) = 0
                  /\ (2 * Given(in.positive) * 1000) % total = 0
                  /\ (Given(in.positive) * 1000) % total # 0

\* 31 / 49 / 0 built as 38.8 / 61.3 / -0.1
C39_WitnessNegative ==
    /\ SentimentBuilt
    /\ Val(api).arg = [positive |-> 310, neutral |-> 490, negative |-> 0]
    /\ Val(api).method_returned.positive = 388
    /\ Val(api).method_returned.neutral = 613
    /\ Val(api).method_returned.negative = -1

----------------------------------------------------------------------------
\* C40: on a record that exists, fail_job changes only status, error and
\* error_code; set_reviews changes only reviews; update_status without an
\* error changes only status and, when given, progress; and no update method
\* changes analysis_id, request_hash, app_id, app_url, platform or options.
\* (created_at and updated_at are not part of the modelled record.)
IdentityFields == {"analysis_id", "request_hash", "app_id", "app_url", "platform", "options"}
JobFields == DOMAIN NewJob(1, None, None, None, None, None)

\* the step leaves every field of job i outside `changed` as it was
Frame(i, changed) ==
    /\ get_job(i)' # Absent
    /\ \A f \in JobFields \ changed : Val(get_job(i)')[f] = Val(get_job(i))[f]

UpdateStatusWithoutError(i, progress) ==
    /\ \E status \in JobStatus :
        LET Apply(job) == update_status(job, status, progress, None, None)
        IN  JobManagerMethod(i, "update_status", Apply)
    /\ UNCHANGED <<redisUp, settings, uuids, handler, run, statusLog, invoked>>

C40_FrameStep ==
    Stored(1) =>
        /\ ApiFailJob(1) => Frame(1, {"status", "error", "error_code"})
        /\ ApiSetReviews(1) => Frame(1, {"reviews"})
        /\ UpdateStatusWithoutError(1, NoProgress) => Frame(1, {"status"})
        /\ UpdateStatusWithoutError(1, 50) => Frame(1, {"status", "progress"})
        /\ (ApiUpdateStatus(1) \/ ApiSetResult(1)) => Frame(1, JobFields \ IdentityFields)

C40_FrameConditions == [][C40_FrameStep]_vars

\* fail_job has returned a FAILED record that keeps the progress, the reviews,
\* the result and the token count stored before it
C40_Witness ==
    /\ api # Absent
    /\ Val(api).method = "fail_job"
    /\ Val(api).method_returned # Absent
    /\ LET job == Val(Val(api).method_returned)
       IN  /\ job.status = FAILED
           /\ job.error = "boom"
           /\ job.progress = 100
           /\ job.reviews = LowMaxReviewCount
           /\ job.result # Absent
           /\ job.tokens_used > 0
           /\ get_job(1) = Some(job)

\* set_reviews has returned a record that keeps a progress of 50 and an error
C40_WitnessSetReviews ==
    /\ api # Absent
    /\ Val(api).method = "set_reviews"
    /\ Val(api).method_returned # Absent
    /\ LET job == Val(Val(api).method_returned)
       IN  /\ job.reviews = LowMaxReviewCount
           /\ job.progress = 50
           /\ job.error = "boom"
           /\ job.status = FAILED

====
